---------------------------- MODULE Spec2Model ----------------------------
(***************************************************************************)
(* Acquisition core of the journal analysis tool (src/app.py): the shared  *)
(* rate limiter, the adaptive delayer, the record caches with the          *)
(* single-record fetch loops, the unified and citing lookups and the       *)
(* cursor-paginated bulk listing.                                          *)
(*                                                                         *)
(* Time is counted in ticks; one second is TicksPerSecond ticks.  Delays   *)
(* of DELAYS are in tenths of a second.                                    *)
(***************************************************************************)
EXTENDS Integers, Sequences, FiniteSets, TLC

(***************************************************************************)
(* Program constants                                                       *)
(***************************************************************************)
RETRIES == 3
DELAYS == <<2, 5, 7, 10, 13, 15, 20>>

(***************************************************************************)
(* Bounds of the model                                                     *)
(***************************************************************************)
\* ceiling N passed to RateLimiter(calls_per_second=N)
calls_per_second == 2
\* ticks in the limiter's 1.0 second window
TicksPerSecond == 3
\* the clock stops advancing here
MaxTime == 7
\* calls of wait_if_needed that are followed
MaxCalls == 5
\* threads calling the two rate-control singletons
NumThreads == 2

Threads == 1..NumThreads
NoThread == 0
\* the thread that runs the script (main, analyze_journal); the Threads are
\* then the workers of its pools
ScriptThread == NumThreads + 1
Callers == Threads \cup {ScriptThread}

Min(a, b) == IF a < b THEN a ELSE b

VARIABLES
    \* RateLimiter
    clock,          \* time.time(), in ticks
    timestamps,     \* RateLimiter.timestamps
    rl_lock,        \* holder of RateLimiter.lock, or NoThread
    rl_pc,          \* per thread: "idle" or "sleeping" (inside time.sleep)
    rl_now,         \* per thread: the local `now` of wait_if_needed
    rl_wake,        \* per thread: the tick at which time.sleep may return
    released,       \* ticks at which wait_if_needed returned, in order
    \* AdaptiveDelayer
    delay_index,    \* AdaptiveDelayer.delay_index
    dl_lock,        \* holder of AdaptiveDelayer.lock, or NoThread
    dl_pc,          \* per thread: "idle" or "sleeping"
    dl_success,     \* per thread: the `success` argument of the running wait
    dl_delay,       \* per thread: the local `delay` of the running wait
    dl_ret,         \* per thread: what the last finished wait returned (0: none)
    dl_fails,       \* history: the waits with success=False since the last
                    \* wait with success=True (or since the delayer was made),
                    \* in the order the lock was taken, counted up to FailsCap
    \* AnalysisState
    crossref_cache, \* state.crossref_cache: a dict, as a function on its keys
    openalex_cache, \* state.openalex_cache
    unified_cache,  \* state.unified_cache
    citing_cache,   \* state.citing_cache
    \* the threads' calls
    stack,          \* per thread: the frames of the functions it is inside
    call,           \* per thread: its outermost call, and what it returned
    script,         \* per thread: the result set the provider pages through
    \* process_with_progress
    pp_pc,          \* "idle", "pool" (inside the with block) or "returned"
    pp_items,       \* `items`
    pp_func,        \* `func`: what it does for each item
    pp_futures,     \* `futures`, in the order of their submit: their states
    pp_yielded,     \* the futures as_completed has yielded, in that order
    pp_results,     \* `results`
    pp_errors,      \* the items st.error was called for, in order
    \* analyze_journal and the AnalysisState fields it sets
    aj_pc,          \* position in analyze_journal: "idle", "name", "articles",
                    \* "seeds", "citations", "report", "done", or "returned"
                    \* (an early return), "raised" (an exception left it)
    aj_issn,        \* `issn`
    aj_period,      \* `period_str`
    aj_items,       \* `items`
    journal_name,   \* `journal_name`
    dois,           \* `dois`: the arguments of the seed tasks
    analyzed_dois,  \* `analyzed_dois`: the arguments of the citing tasks
    futures,        \* `futures` of the running with block, in submit order
    yielded,        \* the futures as_completed has yielded, in that order
    analyzed_metadata,      \* `analyzed_metadata`
    all_citing_metadata,    \* `all_citing_metadata`
    analysis_complete,      \* state.analysis_complete
    analysis_results        \* state.analysis_results

rlVars == <<clock, timestamps, rl_lock, rl_pc, rl_now, rl_wake, released>>
dlVars == <<delay_index, dl_lock, dl_pc, dl_success, dl_delay, dl_ret, dl_fails>>
cacheVars == <<crossref_cache, openalex_cache, unified_cache, citing_cache>>
callVars == <<stack, call, script>>
ppVars == <<pp_pc, pp_items, pp_func, pp_futures, pp_yielded, pp_results, pp_errors>>
ajVars == <<aj_pc, aj_issn, aj_period, aj_items, journal_name, dois,
           analyzed_dois, futures, yielded, analyzed_metadata,
           all_citing_metadata, analysis_complete, analysis_results>>
jobVars == <<ppVars, ajVars>>
vars == <<rlVars, dlVars, cacheVars, callVars, jobVars>>

(***************************************************************************)
(* RateLimiter                                                             *)
(***************************************************************************)
RLInit ==
    /\ clock = 0
    /\ timestamps = <<>>
    /\ rl_lock = NoThread
    /\ rl_pc = [t \in Threads |-> "idle"]
    /\ rl_now = [t \in Threads |-> 0]
    /\ rl_wake = [t \in Threads |-> 0]
    /\ released = <<>>

\* [ts for ts in self.timestamps if now - ts < 1.0]
InWindow(tss, now) ==
    LET Recent(ts) == now - ts < TicksPerSecond
    IN  SelectSeq(tss, Recent)

\* the timestamp wait_if_needed appends for the admitted call: `now`, read
\* before any sleep (nowRead), not the time at which the call returns (nowExit)
RecordedTimestamp(nowRead, nowExit) == nowRead

\* wait_if_needed up to time.sleep: take the lock, read the clock, drop the
\* old timestamps, and either start sleeping or record the call and return
WaitIfNeededEnter(t) ==
    /\ rl_pc[t] = "idle"
    /\ rl_lock = NoThread
    /\ Len(released) < MaxCalls
    /\ LET now == clock
           kept == InWindow(timestamps, now)
           full == Len(kept) >= calls_per_second
           sleep_time == IF full THEN TicksPerSecond - (now - kept[1]) ELSE 0
       IN  IF full /\ sleep_time > 0
           THEN /\ timestamps' = kept
                /\ rl_lock' = t
                /\ rl_pc' = [rl_pc EXCEPT ![t] = "sleeping"]
                /\ rl_now' = [rl_now EXCEPT ![t] = now]
                /\ rl_wake' = [rl_wake EXCEPT ![t] = now + sleep_time]
                /\ UNCHANGED released
           ELSE /\ timestamps' =
                     Append(IF full THEN Tail(kept) ELSE kept,
                            RecordedTimestamp(now, clock))
                /\ rl_now' = [rl_now EXCEPT ![t] = now]
                /\ released' = Append(released, clock)
                /\ UNCHANGED <<rl_lock, rl_pc, rl_wake>>
    /\ UNCHANGED <<clock, jobVars, dlVars, cacheVars, callVars>>

\* wait_if_needed after time.sleep: drop the oldest timestamp, record the
\* call, release the lock and return
WaitIfNeededWake(t) ==
    /\ rl_pc[t] = "sleeping"
    /\ clock >= rl_wake[t]
    /\ timestamps' = Append(Tail(timestamps), RecordedTimestamp(rl_now[t], clock))
    /\ rl_lock' = NoThread
    /\ rl_pc' = [rl_pc EXCEPT ![t] = "idle"]
    /\ released' = Append(released, clock)
    /\ UNCHANGED <<clock, rl_now, rl_wake, jobVars, dlVars, cacheVars, callVars>>

\* time passes
Tick ==
    /\ clock < MaxTime
    /\ clock' = clock + 1
    /\ UNCHANGED <<timestamps, rl_lock, rl_pc, rl_now, rl_wake, released, jobVars, dlVars,
                   cacheVars, callVars>>

(***************************************************************************)
(* AdaptiveDelayer                                                         *)
(***************************************************************************)
DLInit ==
    /\ delay_index = 0
    /\ dl_lock = NoThread
    /\ dl_pc = [t \in Threads |-> "idle"]
    /\ dl_success = [t \in Threads |-> TRUE]
    /\ dl_delay = [t \in Threads |-> 0]
    /\ dl_ret = [t \in Threads |-> 0]
    /\ dl_fails = 0

\* the count of failed waits stops here: from Len(DELAYS) - 1 failures on
\* the tier is the last one
FailsCap == Len(DELAYS)

\* the failed waits since the last successful one, after one more wait
FailsAfter(k, success) == IF success THEN 0 ELSE Min(k + 1, FailsCap)

\* a forgotten reset on success
NextDelayIndexNoReset(i, success) ==
    IF success THEN i ELSE Min(i + 1, Len(DELAYS) - 1)

\* the index update of AdaptiveDelayer.wait
NextDelayIndex(i, success) ==
    IF success THEN 0 ELSE Min(i + 1, Len(DELAYS) - 1)

\* DELAYS[self.delay_index] (the list is indexed from 0)
DelayAt(i) == DELAYS[i + 1]

\* the index of a delay in DELAYS (0 for no delay yet)
IndexOfDelay(d) ==
    IF d = 0 THEN 0 ELSE CHOOSE i \in 0..(Len(DELAYS) - 1) : DelayAt(i) = d

\* a delayer with a tier for each thread: the tier of the thread's last wait
TierBeforeOwn(t) == IndexOfDelay(dl_delay[t])

\* self.delay_index as the wait of thread t finds it: the attribute of the
\* one AdaptiveDelayer that `delayer` names, whichever thread set it
TierBefore(t) == delay_index

\* a wait that sleeps after its with block
LockFreeInSleep(t) == NoThread

\* the holder of self.lock while thread t is in the time.sleep of wait: the
\* sleep is inside `with self.lock`
LockInSleep(t) == t

\* wait(success) up to time.sleep: take the lock, move the index, pick the delay
DelayerWaitEnter(t, success) ==
    /\ dl_pc[t] = "idle"
    /\ dl_lock = NoThread
    /\ dl_lock' = LockInSleep(t)
    /\ delay_index' = NextDelayIndex(TierBefore(t), success)
    /\ dl_fails' = FailsAfter(dl_fails, success)
    /\ dl_success' = [dl_success EXCEPT ![t] = success]
    /\ dl_delay' = [dl_delay EXCEPT ![t] = DelayAt(delay_index')]
    /\ dl_pc' = [dl_pc EXCEPT ![t] = "sleeping"]
    /\ UNCHANGED <<dl_ret, rlVars, jobVars, cacheVars, callVars>>

\* wait(success) after time.sleep: return the delay, releasing the lock
DelayerWaitExit(t) ==
    /\ dl_pc[t] = "sleeping"
    /\ dl_lock' = NoThread
    /\ dl_ret' = [dl_ret EXCEPT ![t] = dl_delay[t]]
    /\ dl_pc' = [dl_pc EXCEPT ![t] = "idle"]
    /\ UNCHANGED <<delay_index, dl_success, dl_delay, dl_fails, rlVars, jobVars,
                   cacheVars, callVars>>

(***************************************************************************)
(* AnalysisState and the values held in it                                 *)
(***************************************************************************)
\* Python's None
None == [none |-> TRUE]

\* the DOIs for which `not doi or doi == 'N/A'` holds
InvalidDOIs == {"", "N/A"}

\* the DOIs the providers know
DOIs == {"10.1/a", "10.1/b"}

\* what api.crossref.org may answer for a DOI (resp.json()['message']); the
\* payload of a work can differ between two requests (its counts grow)
CrossrefRecords(doi) ==
    {[DOI |-> doi, payload |-> n] : n \in {1, 2}}

\* what api.openalex.org may answer for a DOI (resp.json())
OpenAlexRecords(doi) ==
    {[id |-> doi, cited_by_count |-> n] : n \in {0, 1}}

ProviderRecords(p, doi) ==
    IF p = "crossref" THEN CrossrefRecords(doi) ELSE OpenAlexRecords(doi)

Providers == {"crossref", "openalex"}

\* how one requests.get ends: status 200 with a body the caller can use,
\* another status, an exception (timeout, connection error), or status 200
\* with a body whose decoding raises
Outcomes == {"ok", "non200", "exception", "malformed"}

\* the empty dict
EmptyDict == <<>>

\* d[k] = v
Put(d, k, v) == [x \in (DOMAIN d) \cup {k} |-> IF x = k THEN v ELSE d[x]]

\* d.get(k)
Get(d, k) == IF k \in DOMAIN d THEN d[k] ELSE None

CacheInit ==
    /\ crossref_cache = EmptyDict
    /\ openalex_cache = EmptyDict
    /\ unified_cache = EmptyDict
    /\ citing_cache = EmptyDict

CacheOf(p) == IF p = "crossref" THEN crossref_cache ELSE openalex_cache

(***************************************************************************)
(* Calls.  A thread's stack holds one frame for each function it is        *)
(* inside.  `call` describes the thread's outermost call: the function,    *)
(* its argument, whether it has returned and what, whether the call (with  *)
(* the calls nested in it) has gone through rate_limiter.wait_if_needed,   *)
(* requests.get and delayer.wait, and whether it repeats the call the      *)
(* thread made just before (then first_ret is what that one returned).     *)
(***************************************************************************)
NewFrame(fn, arg, pc) ==
    [fn |-> fn, arg |-> arg, pc |-> pc,
     i |-> 0,               \* iterations of `for _ in range(RETRIES)` finished
     success |-> FALSE,     \* the paging loop's `success`
     outcome |-> "none",    \* how the last requests.get ended
     data |-> None,         \* `data`
     acc |-> <<>>,          \* `citing_list`, `items`
     cursor |-> 0,          \* `cursor`: 0 is None, 1 is "*", k+1 follows k
     idx |-> 0,             \* position in data's results
     fetched |-> 0,         \* pages taken from a status 200 so far
     admits |-> 0,          \* calls of rate_limiter.wait_if_needed,
     attempts |-> 0,        \* of requests.get and
     waits |-> 0,           \* of delayer.wait of the current `for` loop
     rv |-> None,           \* what the last nested call returned
     oa_data |-> None,      \* `oa_data` of get_citing_dois_and_metadata
     result |-> None,       \* the value being returned
     log |-> <<>>]          \* the steps of the latest iteration of the retry
                            \* loop: "rl", how the request ended, the wait

NoCall ==
    [fn |-> "none", arg |-> "", status |-> "none", ret |-> None,
     admitted |-> FALSE, requested |-> FALSE, waited |-> FALSE,
     repeat |-> FALSE, first_ret |-> None]

\* the record of a call fn(arg) that thread t starts
NewCall(t, fn, arg) ==
    LET rep == call[t].status = "returned" /\ call[t].fn = fn /\ call[t].arg = arg
    IN  [fn |-> fn, arg |-> arg, status |-> "running", ret |-> None,
         admitted |-> FALSE, requested |-> FALSE, waited |-> FALSE,
         repeat |-> rep, first_ret |-> IF rep THEN call[t].ret ELSE None]

\* the record of a call fn(arg) of thread t that returns v at once
ReturnedCall(t, fn, arg, v) ==
    [NewCall(t, fn, arg) EXCEPT !.status = "returned", !.ret = v]

CallInit ==
    /\ stack = [t \in Callers |-> <<>>]
    /\ call = [t \in Callers |-> NoCall]
    /\ script = [t \in Callers |-> <<>>]

Idle(t) == stack[t] = <<>>
Top(t) == stack[t][Len(stack[t])]
Running(t, fns, pc) == ~Idle(t) /\ Top(t).fn \in fns /\ Top(t).pc = pc

\* the stack with its top frame replaced
WithTop(t, f) == [stack[t] EXCEPT ![Len(stack[t])] = f]

\* `return`: the top frame ends; its caller resumes with the value in rv, or
\* the thread's outermost call has returned
Return(t) ==
    /\ ~Idle(t)
    /\ Top(t).pc = "ret"
    /\ LET n == Len(stack[t])
           v == Top(t).result
       IN  IF n = 1
           THEN /\ stack' = [stack EXCEPT ![t] = <<>>]
                /\ call' = [call EXCEPT ![t].status = "returned", ![t].ret = v]
           ELSE /\ stack' = [stack EXCEPT ![t] =
                      Append(SubSeq(stack[t], 1, n - 2),
                             [stack[t][n - 1] EXCEPT !.rv = v])]
                /\ UNCHANGED call
    /\ UNCHANGED <<rlVars, jobVars, dlVars, cacheVars, script>>

\* the three calls every iteration of a retry loop makes; in these
\* specifications wait_if_needed and wait return (SpecRL and SpecDelay have
\* their locks and sleeps)
RateLimiterCall(t) == call' = [call EXCEPT ![t].admitted = TRUE]
RequestsGet(t) == call' = [call EXCEPT ![t].requested = TRUE]
DelayerCall(t, success) ==
    /\ delay_index' = NextDelayIndex(delay_index, success)
    /\ dl_fails' = FailsAfter(dl_fails, success)
    /\ call' = [call EXCEPT ![t].waited = TRUE]
    /\ UNCHANGED <<dl_lock, dl_pc, dl_success, dl_delay, dl_ret>>

(***************************************************************************)
(* get_crossref_metadata, get_openalex_metadata                            *)
(***************************************************************************)
\* a prologue without the cache lookup
FetchPrologueNoLookup(p, doi) ==
    IF doi \in InvalidDOIs THEN [done |-> TRUE, v |-> None]
    ELSE [done |-> FALSE, v |-> None]

\* the lines before the retry loop: a cached record or None is returned at
\* once (done), otherwise the loop is entered
FetchPrologue(p, doi) ==
    IF doi \in DOMAIN CacheOf(p) THEN [done |-> TRUE, v |-> CacheOf(p)[doi]]
    ELSE IF doi \in InvalidDOIs THEN [done |-> TRUE, v |-> None]
    ELSE [done |-> FALSE, v |-> None]

\* a delayer.wait that reports every answered request as a success
WaitSuccessUnlessException(outcome) == outcome # "exception"

\* the argument of the delayer.wait that follows a request: success=True on
\* the path of a status 200 whose body was used, success=False on the others
WaitSuccess(outcome) == outcome = "ok"

\* a loop with one iteration too many
MoreRetriesOffByOne(i) == i + 1 <= RETRIES

\* `for _ in range(RETRIES)` goes on after i+1 finished iterations
MoreRetries(i) == i + 1 < RETRIES

\* the outcomes in which the try block raises
Raising == {"exception", "malformed"}

\* the bare `except: pass` of the retry loops catches whatever is raised
Caught(outcome) == TRUE

\* a thread calls get_crossref_metadata(doi, state) or get_openalex_metadata
StartFetch(t, p, doi) ==
    /\ Idle(t)
    /\ LET pr == FetchPrologue(p, doi)
       IN  IF pr.done
           THEN /\ call' = [call EXCEPT ![t] = ReturnedCall(t, p, doi, pr.v)]
                /\ UNCHANGED stack
           ELSE /\ call' = [call EXCEPT ![t] = NewCall(t, p, doi)]
                /\ stack' = [stack EXCEPT ![t] = <<NewFrame(p, doi, "rl")>>]
    /\ UNCHANGED <<rlVars, jobVars, dlVars, cacheVars, script>>

\* rate_limiter.wait_if_needed()
FetchRateLimit(t) ==
    /\ Running(t, Providers, "rl")
    /\ stack' = [stack EXCEPT ![t] =
                    WithTop(t, [Top(t) EXCEPT !.pc = "http",
                                              !.log = <<"rl">>, !.admits = @ + 1])]
    /\ RateLimiterCall(t)
    /\ UNCHANGED <<rlVars, jobVars, dlVars, cacheVars, script>>

\* a store that keeps the record another caller has stored
StoreRecordIfAbsent(cache, doi, data) ==
    IF doi \in DOMAIN cache THEN cache ELSE Put(cache, doi, data)

\* state.crossref_cache[doi] = data, state.openalex_cache[doi] = data
StoreRecord(cache, doi, data) == Put(cache, doi, data)

\* requests.get and, on status 200, the decoding of the body and the store
\* of the record in the provider's cache; an exception that the except
\* clause did not catch would leave the call
FetchHttp(t, outcome, rec) ==
    /\ Running(t, Providers, "http")
    /\ LET f == Top(t)
           escapes == outcome \in Raising /\ ~Caught(outcome)
       IN  /\ rec \in ProviderRecords(f.fn, f.arg)
           /\ stack' = [stack EXCEPT ![t] =
                 IF escapes THEN <<>>
                 ELSE WithTop(t, [f EXCEPT !.pc = "wait",
                                           !.outcome = outcome,
                                           !.attempts = @ + 1,
                                           !.data = IF outcome = "ok" THEN rec ELSE @,
                                           !.log = Append(@, outcome)])]
           /\ call' = [call EXCEPT ![t].requested = TRUE,
                                   ![t].status = IF escapes THEN "raised" ELSE @]
           /\ crossref_cache' =
                 IF outcome = "ok" /\ f.fn = "crossref"
                 THEN StoreRecord(crossref_cache, f.arg, rec) ELSE crossref_cache
           /\ openalex_cache' =
                 IF outcome = "ok" /\ f.fn = "openalex"
                 THEN StoreRecord(openalex_cache, f.arg, rec) ELSE openalex_cache
    /\ UNCHANGED <<rlVars, jobVars, dlVars, unified_cache, citing_cache, script>>

\* a fetch that remembers its failure
AfterReturnNoneStored(cache, doi) == Put(cache, doi, None)

\* the provider's cache after `return None`: nothing is stored for the DOI
AfterReturnNone(cache, doi) == cache

\* delayer.wait(success=...) and what follows it: `return data`, the next
\* iteration, or `return None` after the last one
FetchWait(t) ==
    /\ Running(t, Providers, "wait")
    /\ LET f == Top(t)
           success == WaitSuccess(f.outcome)
           g == [f EXCEPT !.waits = @ + 1,
                          !.log = Append(@, IF success THEN "wait_true"
                                                       ELSE "wait_false")]
       IN  /\ DelayerCall(t, success)
           /\ stack' = [stack EXCEPT ![t] =
                 WithTop(t, IF success
                            THEN [g EXCEPT !.pc = "ret", !.result = f.data]
                            ELSE IF MoreRetries(f.i)
                            THEN [g EXCEPT !.pc = "rl", !.i = @ + 1]
                            ELSE [g EXCEPT !.pc = "ret", !.i = @ + 1,
                                           !.result = None])]
           /\ LET exhausted == ~success /\ ~MoreRetries(f.i)
              IN  /\ crossref_cache' =
                        IF exhausted /\ f.fn = "crossref"
                        THEN AfterReturnNone(crossref_cache, f.arg) ELSE crossref_cache
                  /\ openalex_cache' =
                        IF exhausted /\ f.fn = "openalex"
                        THEN AfterReturnNone(openalex_cache, f.arg) ELSE openalex_cache
    /\ UNCHANGED <<rlVars, jobVars, unified_cache, citing_cache, script>>

\* a nested call get_crossref_metadata(doi, state) / get_openalex_metadata
\* made by frame f on top of the stack, which goes on at `cont` with the
\* result in rv
InvokeFetch(t, f, p, doi, cont) ==
    LET pr == FetchPrologue(p, doi)
    IN  IF pr.done
        THEN WithTop(t, [f EXCEPT !.pc = cont, !.rv = pr.v])
        ELSE Append(WithTop(t, [f EXCEPT !.pc = cont]), NewFrame(p, doi, "rl"))

(***************************************************************************)
(* get_unified_metadata                                                    *)
(***************************************************************************)
\* a thread calls get_unified_metadata((doi, state))
StartUnified(t, doi) ==
    /\ Idle(t)
    /\ IF doi \in DOMAIN unified_cache
       THEN /\ call' = [call EXCEPT ![t] =
                  ReturnedCall(t, "unified", doi, unified_cache[doi])]
            /\ UNCHANGED stack
       ELSE IF doi \in InvalidDOIs
       THEN /\ call' = [call EXCEPT ![t] =
                  ReturnedCall(t, "unified", doi,
                               [crossref |-> None, openalex |-> None])]
            /\ UNCHANGED stack
       ELSE /\ call' = [call EXCEPT ![t] = NewCall(t, "unified", doi)]
            /\ stack' = [stack EXCEPT ![t] = <<NewFrame("unified", doi, "call_cr")>>]
    /\ UNCHANGED <<rlVars, jobVars, dlVars, cacheVars, script>>

\* cr_data = get_crossref_metadata(doi, state)
UnifiedCallCrossref(t) ==
    /\ Running(t, {"unified"}, "call_cr")
    /\ stack' = [stack EXCEPT ![t] =
                    InvokeFetch(t, Top(t), "crossref", Top(t).arg, "call_oa")]
    /\ UNCHANGED <<rlVars, jobVars, dlVars, cacheVars, call, script>>

\* oa_data = get_openalex_metadata(doi, state); cr_data is kept in `data`
UnifiedCallOpenAlex(t) ==
    /\ Running(t, {"unified"}, "call_oa")
    /\ stack' = [stack EXCEPT ![t] =
                    InvokeFetch(t, [Top(t) EXCEPT !.data = Top(t).rv],
                                "openalex", Top(t).arg, "store")]
    /\ UNCHANGED <<rlVars, jobVars, dlVars, cacheVars, call, script>>

\* a store that keeps only the pairs with both records
StoreUnifiedIfComplete(cache, doi, result) ==
    IF result.crossref = None \/ result.openalex = None THEN cache
    ELSE Put(cache, doi, result)

\* state.unified_cache[doi] = result, whatever the two records are
StoreUnified(cache, doi, result) == Put(cache, doi, result)

\* result = {'crossref': cr_data, 'openalex': oa_data};
\* state.unified_cache[doi] = result; return result
UnifiedStore(t) ==
    /\ Running(t, {"unified"}, "store")
    /\ LET f == Top(t)
           result == [crossref |-> f.data, openalex |-> f.rv]
       IN  /\ unified_cache' = StoreUnified(unified_cache, f.arg, result)
           /\ stack' = [stack EXCEPT ![t] =
                 WithTop(t, [f EXCEPT !.pc = "ret", !.result = result])]
    /\ UNCHANGED <<rlVars, jobVars, dlVars, crossref_cache, openalex_cache, citing_cache,
                   call, script>>

(***************************************************************************)
(* get_citing_dois_and_metadata                                            *)
(***************************************************************************)
\* pages of one `cites:` result set
MaxPages == 2
\* works on one page
MaxPerPage == 1

SeqsUpTo(S, n) == UNION {[1..k -> S] : k \in 0..n}

\* a work of data['results']: w.get('doi') is a DOI, or "" when it has none
CitingWorks ==
    {[doi |-> d, publication_date |-> 2020] : d \in {"10.1/b", ""}}

\* the bodies api.openalex.org may answer with for the page at `cursor`:
\* results, data['meta'] present or not, and meta.next_cursor (0: null);
\* the last page of the result set has no next cursor
CitingPages(cursor) ==
    {[results |-> r, meta |-> m, next_cursor |-> n] :
        r \in SeqsUpTo(CitingWorks, MaxPerPage),
        m \in BOOLEAN,
        n \in IF cursor < MaxPages THEN {0, cursor + 1} ELSE {0}}

\* a lookup that trusts the list of a seed only when the seed's record was
\* fetched
CitingCachedIfFetched(doi) ==
    doi \in DOMAIN citing_cache /\ doi \in DOMAIN openalex_cache

\* `analyzed_doi in state.citing_cache`
CitingCached(doi) == doi \in DOMAIN citing_cache

\* a thread calls get_citing_dois_and_metadata((analyzed_doi, state))
StartCiting(t, doi) ==
    /\ Idle(t)
    /\ IF CitingCached(doi)
       THEN /\ call' = [call EXCEPT ![t] =
                  ReturnedCall(t, "citing", doi, citing_cache[doi])]
            /\ UNCHANGED stack
       ELSE /\ call' = [call EXCEPT ![t] = NewCall(t, "citing", doi)]
            /\ stack' = [stack EXCEPT ![t] = <<NewFrame("citing", doi, "call_oa")>>]
    /\ UNCHANGED <<rlVars, jobVars, dlVars, cacheVars, script>>

\* oa_data = get_openalex_metadata(analyzed_doi, state)
CitingCallOpenAlex(t) ==
    /\ Running(t, {"citing"}, "call_oa")
    /\ stack' = [stack EXCEPT ![t] =
                    InvokeFetch(t, Top(t), "openalex", Top(t).arg, "after_oa")]
    /\ UNCHANGED <<rlVars, jobVars, dlVars, cacheVars, call, script>>

\* a paging loop that gives up what it collected when a page fails
PagingResultAllOrNothing(collected, success) ==
    IF success THEN collected ELSE <<>>

\* what a paging loop hands back when it ends, after a page that was taken
\* (success) or after `if not success: break`: the list collected so far
PagingResult(collected, success) == collected

\* a store that skips the empty list
CitingStoreNonEmpty(cache, analyzed_doi, citing_list) ==
    IF citing_list = <<>> THEN cache ELSE Put(cache, analyzed_doi, citing_list)

\* state.citing_cache[analyzed_doi] = citing_list
CitingStore(cache, analyzed_doi, citing_list) == Put(cache, analyzed_doi, citing_list)

\* a test that looks at the record's presence only
NothingCitesWithoutRecord(oa_data) == oa_data = None

\* `not oa_data or oa_data.get('cited_by_count', 0) == 0`
NothingCites(oa_data) ==
    IF oa_data = None THEN TRUE ELSE oa_data.cited_by_count = 0

\* the early return with an empty list, or the start of the paging loop
CitingAfterOpenAlex(t) ==
    /\ Running(t, {"citing"}, "after_oa")
    /\ LET f == Top(t)
       IN  IF NothingCites(f.rv)
           THEN /\ citing_cache' = CitingStore(citing_cache, f.arg, <<>>)
                /\ stack' = [stack EXCEPT ![t] =
                      WithTop(t, [f EXCEPT !.pc = "ret", !.oa_data = f.rv,
                                           !.result = <<>>])]
           ELSE /\ stack' = [stack EXCEPT ![t] =
                      WithTop(t, [f EXCEPT !.pc = "page_rl", !.cursor = 1,
                                           !.oa_data = f.rv,
                                           !.success = FALSE, !.i = 0])]
                /\ UNCHANGED citing_cache
    /\ UNCHANGED <<rlVars, jobVars, dlVars, crossref_cache, openalex_cache, unified_cache,
                   call, script>>

\* rate_limiter.wait_if_needed() of a page request
CitingRateLimit(t) ==
    /\ Running(t, {"citing"}, "page_rl")
    /\ stack' = [stack EXCEPT ![t] =
                    WithTop(t, [Top(t) EXCEPT !.pc = "page_http",
                                              !.log = <<"rl">>, !.admits = @ + 1])]
    /\ RateLimiterCall(t)
    /\ UNCHANGED <<rlVars, jobVars, dlVars, cacheVars, script>>

\* requests.get of the page at the cursor; on status 200 the results of the
\* decoded body are gone through next
CitingHttp(t, outcome, page) ==
    /\ Running(t, {"citing"}, "page_http")
    /\ LET f == Top(t)
       IN  /\ page \in CitingPages(f.cursor)
           /\ stack' = [stack EXCEPT ![t] =
                 WithTop(t, IF outcome = "ok"
                            THEN [f EXCEPT !.pc = "item", !.outcome = outcome,
                                           !.attempts = @ + 1,
                                           !.data = page, !.idx = 1,
                                           !.fetched = @ + 1,
                                           !.log = Append(@, outcome)]
                            ELSE [f EXCEPT !.pc = "page_wait", !.outcome = outcome,
                                           !.attempts = @ + 1,
                                           !.log = Append(@, outcome)])]
    /\ RequestsGet(t)
    /\ UNCHANGED <<rlVars, jobVars, dlVars, cacheVars, script>>

\* `for w in data.get('results', [])`: the next work and its crossref record,
\* or, after the last work, cursor = data['meta'].get('next_cursor'), which
\* raises (into the bare except) when the body has no meta
CitingItem(t) ==
    /\ Running(t, {"citing"}, "item")
    /\ LET f == Top(t)
       IN  IF f.idx > Len(f.data.results)
           THEN stack' = [stack EXCEPT ![t] =
                   WithTop(t, IF f.data.meta
                              THEN [f EXCEPT !.pc = "page_wait",
                                             !.cursor = f.data.next_cursor]
                              ELSE [f EXCEPT !.pc = "page_wait",
                                             !.outcome = "raised",
                                             !.log = [@ EXCEPT ![Len(@)] = "raised"]])]
           ELSE LET c_doi == f.data.results[f.idx].doi
                IN  IF c_doi = ""
                    THEN stack' = [stack EXCEPT ![t] =
                            WithTop(t, [f EXCEPT !.idx = @ + 1])]
                    ELSE IF c_doi \notin DOMAIN crossref_cache
                    THEN stack' = [stack EXCEPT ![t] =
                            InvokeFetch(t, f, "crossref", c_doi, "item_oa")]
                    ELSE stack' = [stack EXCEPT ![t] =
                            WithTop(t, [f EXCEPT !.pc = "item_oa"])]
    /\ UNCHANGED <<rlVars, jobVars, dlVars, cacheVars, call, script>>

\* `if c_doi not in state.openalex_cache: get_openalex_metadata(c_doi, state)`
CitingItemOpenAlex(t) ==
    /\ Running(t, {"citing"}, "item_oa")
    /\ LET f == Top(t)
           c_doi == f.data.results[f.idx].doi
       IN  IF c_doi \notin DOMAIN openalex_cache
           THEN stack' = [stack EXCEPT ![t] =
                   InvokeFetch(t, f, "openalex", c_doi, "item_append")]
           ELSE stack' = [stack EXCEPT ![t] =
                   WithTop(t, [f EXCEPT !.pc = "item_append"])]
    /\ UNCHANGED <<rlVars, jobVars, dlVars, cacheVars, call, script>>

\* citing_list.append({...}) with what the two caches hold for c_doi
CitingItemAppend(t) ==
    /\ Running(t, {"citing"}, "item_append")
    /\ LET f == Top(t)
           w == f.data.results[f.idx]
           entry == [doi |-> w.doi, pub_date |-> w.publication_date,
                     crossref |-> Get(crossref_cache, w.doi),
                     openalex |-> Get(openalex_cache, w.doi)]
       IN  stack' = [stack EXCEPT ![t] =
              WithTop(t, [f EXCEPT !.pc = "item", !.idx = @ + 1,
                                   !.acc = Append(@, entry)])]
    /\ UNCHANGED <<rlVars, jobVars, dlVars, cacheVars, call, script>>

\* delayer.wait(success=...) of a page request and what follows it: the next
\* page (`while cursor`), the next iteration for the same cursor, or the end
\* of the paging: state.citing_cache[analyzed_doi] = citing_list; return
CitingWait(t) ==
    /\ Running(t, {"citing"}, "page_wait")
    /\ LET f == Top(t)
           success == WaitSuccess(f.outcome)
           g == [f EXCEPT !.success = success, !.waits = @ + 1,
                          !.log = Append(@, IF success THEN "wait_true"
                                                       ELSE "wait_false")]
           again == IF success THEN f.cursor # 0 ELSE MoreRetries(f.i)
       IN  /\ DelayerCall(t, success)
           /\ IF again
              THEN /\ stack' = [stack EXCEPT ![t] =
                         WithTop(t, IF success
                                    THEN [g EXCEPT !.pc = "page_rl", !.i = 0,
                                                   !.admits = 0, !.attempts = 0,
                                                   !.waits = 0, !.success = FALSE]
                                    ELSE [g EXCEPT !.pc = "page_rl", !.i = @ + 1])]
                   /\ UNCHANGED citing_cache
              ELSE /\ citing_cache' = CitingStore(citing_cache, f.arg,
                                                  PagingResult(f.acc, success))
                   /\ stack' = [stack EXCEPT ![t] =
                         WithTop(t, [g EXCEPT !.pc = "ret",
                                              !.result = PagingResult(f.acc, success)])]
    /\ UNCHANGED <<rlVars, jobVars, crossref_cache, openalex_cache, unified_cache, script>>

(***************************************************************************)
(* get_journal_name                                                        *)
(***************************************************************************)
ISSNs == {"1234-5678"}
JournalNames == {"Journal A"}

\* translation_manager.get_text('journal_not_found')
JournalNotFound == "journal_not_found"

\* state.crossref_cache.get('journals', {})
JournalsDict == IF "journals" \in DOMAIN crossref_cache
                THEN crossref_cache["journals"] ELSE EmptyDict

\* a thread calls get_journal_name(issn)
StartJournal(t, issn) ==
    /\ Idle(t)
    /\ IF issn \in DOMAIN JournalsDict
       THEN /\ call' = [call EXCEPT ![t] =
                  ReturnedCall(t, "journal", issn, JournalsDict[issn])]
            /\ UNCHANGED stack
       ELSE /\ call' = [call EXCEPT ![t] = NewCall(t, "journal", issn)]
            /\ stack' = [stack EXCEPT ![t] = <<NewFrame("journal", issn, "rl")>>]
    /\ UNCHANGED <<rlVars, jobVars, dlVars, cacheVars, script>>

\* rate_limiter.wait_if_needed()
JournalRateLimit(t) ==
    /\ Running(t, {"journal"}, "rl")
    /\ stack' = [stack EXCEPT ![t] =
                    WithTop(t, [Top(t) EXCEPT !.pc = "http",
                                              !.log = <<"rl">>, !.admits = @ + 1])]
    /\ RateLimiterCall(t)
    /\ UNCHANGED <<rlVars, jobVars, dlVars, cacheVars, script>>

\* requests.get of /sources?filter=issn:...; on status 200 with
\* data['meta']['count'] > 0 the name is stored under
\* state.crossref_cache['journals']; count is 0 when no source matches
JournalHttp(t, outcome, count, name) ==
    /\ Running(t, {"journal"}, "http")
    /\ LET f == Top(t)
           found == outcome = "ok" /\ count > 0
           seen == IF outcome = "ok" /\ count = 0 THEN "empty" ELSE outcome
       IN  /\ stack' = [stack EXCEPT ![t] =
                 WithTop(t, [f EXCEPT !.pc = "wait",
                                      !.outcome = seen,
                                      !.attempts = @ + 1,
                                      !.data = IF found THEN name ELSE @,
                                      !.log = Append(@, seen)])]
           /\ crossref_cache' =
                 IF found
                 THEN Put(crossref_cache, "journals", Put(JournalsDict, f.arg, name))
                 ELSE crossref_cache
    /\ RequestsGet(t)
    /\ UNCHANGED <<rlVars, jobVars, dlVars, openalex_cache, unified_cache, citing_cache,
                   script>>

\* delayer.wait(success=...) and what follows it: `return name`, the next
\* iteration, or the not-found text after the last one
JournalWait(t) ==
    /\ Running(t, {"journal"}, "wait")
    /\ LET f == Top(t)
           success == WaitSuccess(f.outcome)
           g == [f EXCEPT !.waits = @ + 1,
                          !.log = Append(@, IF success THEN "wait_true"
                                                       ELSE "wait_false")]
       IN  /\ DelayerCall(t, success)
           /\ stack' = [stack EXCEPT ![t] =
                 WithTop(t, IF success
                            THEN [g EXCEPT !.pc = "ret", !.result = f.data]
                            ELSE IF MoreRetries(f.i)
                            THEN [g EXCEPT !.pc = "rl", !.i = @ + 1]
                            ELSE [g EXCEPT !.pc = "ret", !.i = @ + 1,
                                           !.result = JournalNotFound])]
    /\ UNCHANGED <<rlVars, jobVars, cacheVars, script>>

(***************************************************************************)
(* fetch_articles_by_issn_period                                           *)
(***************************************************************************)
\* pages of one bulk listing
MaxBulkPages == 3
\* items on one page of it
MaxPerBulkPage == 1

\* data['message']['items'] of page k of a listing when it holds n works:
\* every work of the result set is listed once
PageItems(k, n) == [j \in 1..n |-> <<k, j>>]

\* what a body of /works?filter=issn:... may be like: how many items it
\* holds and whether message.next-cursor is a cursor (more) or null
BulkShapes == [n : 0..MaxPerBulkPage, more : BOOLEAN]

\* the scripted body of page k
BulkPage(k, shape) == [items |-> PageItems(k, shape.n), more |-> shape.more]

\* a page after which the listing stops: no items, or no next cursor
LastPage(page) == page.items = <<>> \/ ~page.more

\* the finite result sets: scripted pages, the last of which ends the listing
BulkScripts ==
    {s \in UNION {{[k \in 1..len |-> BulkPage(k, shapes[k])] :
                      shapes \in [1..len -> BulkShapes]} : len \in 1..MaxBulkPages} :
        LastPage(s[Len(s)])}

\* a thread calls fetch_articles_by_issn_period(issn, from_date, until_date)
\* against a provider that holds the result set s
StartBulk(t, issn, s) ==
    /\ Idle(t)
    /\ call' = [call EXCEPT ![t] = NewCall(t, "bulk", issn)]
    /\ stack' = [stack EXCEPT ![t] =
                    <<[NewFrame("bulk", issn, "page_rl") EXCEPT !.cursor = 1]>>]
    /\ script' = [script EXCEPT ![t] = s]
    /\ UNCHANGED <<rlVars, jobVars, dlVars, cacheVars>>

\* rate_limiter.wait_if_needed() of a page request
BulkRateLimit(t) ==
    /\ Running(t, {"bulk"}, "page_rl")
    /\ stack' = [stack EXCEPT ![t] =
                    WithTop(t, [Top(t) EXCEPT !.pc = "page_http",
                                              !.log = <<"rl">>, !.admits = @ + 1])]
    /\ RateLimiterCall(t)
    /\ UNCHANGED <<rlVars, jobVars, dlVars, cacheVars, script>>

\* requests.get of the page at the cursor; on status 200:
\* new_items = data['message']['items']; items.extend(new_items);
\* cursor = data['message'].get('next-cursor')
BulkHttp(t, outcome) ==
    /\ Running(t, {"bulk"}, "page_http")
    /\ Top(t).cursor \in 1..Len(script[t])
    /\ LET f == Top(t)
           page == script[t][f.cursor]
       IN  stack' = [stack EXCEPT ![t] =
              WithTop(t, IF outcome = "ok"
                         THEN [f EXCEPT !.pc = "page_wait", !.outcome = outcome,
                                        !.attempts = @ + 1,
                                        !.data = page,
                                        !.acc = @ \o page.items,
                                        !.cursor = IF page.more THEN @ + 1 ELSE 0,
                                        !.fetched = @ + 1,
                                        !.log = Append(@, outcome)]
                         ELSE [f EXCEPT !.pc = "page_wait", !.outcome = outcome,
                                        !.attempts = @ + 1,
                                        !.log = Append(@, outcome)])]
    /\ RequestsGet(t)
    /\ UNCHANGED <<rlVars, jobVars, dlVars, cacheVars, script>>

\* a listing that goes past an empty page
BulkGoesOnPastEmpty(success, new_items, cursor, i) ==
    IF success THEN cursor # 0 ELSE MoreRetries(i)

\* whether the listing requests again after an attempt: inside the for loop
\* while it has iterations left, and after a page was taken unless
\* `if not new_items: break` or `while cursor` ends the paging
BulkGoesOn(success, new_items, cursor, i) ==
    IF success THEN new_items # <<>> /\ cursor # 0 ELSE MoreRetries(i)

\* delayer.wait(success=...) of a page request and what follows it: the next
\* iteration for the same cursor, `if not success: break`,
\* `if not new_items: break`, the next page (`while cursor`), or
\* `return items`
BulkWait(t) ==
    /\ Running(t, {"bulk"}, "page_wait")
    /\ LET f == Top(t)
           success == WaitSuccess(f.outcome)
           g == [f EXCEPT !.success = success, !.waits = @ + 1,
                          !.log = Append(@, IF success THEN "wait_true"
                                                       ELSE "wait_false")]
           again == BulkGoesOn(success, IF success THEN f.data.items ELSE <<>>,
                               f.cursor, f.i)
       IN  /\ DelayerCall(t, success)
           /\ stack' = [stack EXCEPT ![t] =
                 WithTop(t, IF ~again
                            THEN [g EXCEPT !.pc = "ret",
                                           !.result = PagingResult(f.acc, success)]
                            ELSE IF success
                            THEN [g EXCEPT !.pc = "page_rl", !.i = 0,
                                           !.admits = 0, !.attempts = 0,
                                           !.waits = 0, !.success = FALSE]
                            ELSE [g EXCEPT !.pc = "page_rl", !.i = @ + 1])]
    /\ UNCHANGED <<rlVars, jobVars, cacheVars, script>>

(***************************************************************************)
(* process_with_progress                                                   *)
(***************************************************************************)
MAX_WORKERS == 5

\* items of one process_with_progress call
MaxItems == 3

DispatchItems == {"d1", "d2"}

\* what func(item) does: it returns None or a value of its own (here the
\* item, wrapped), or it raises an exception of class Exception
FuncOutcomes(item) == {[raises |-> TRUE, value |-> None],
                       [raises |-> FALSE, value |-> None],
                       [raises |-> FALSE, value |-> [of |-> item]]}

Funcs == {f \in [DispatchItems -> UNION {FuncOutcomes(d) : d \in DispatchItems}] :
             \A d \in DispatchItems : f[d] \in FuncOutcomes(d)}

PPInit ==
    /\ pp_pc = "idle"
    /\ pp_items = <<>>
    /\ pp_func = [d \in DispatchItems |-> [raises |-> FALSE, value |-> None]]
    /\ pp_futures = <<>>
    /\ pp_yielded = <<>>
    /\ pp_results = <<>>
    /\ pp_errors = <<>>

\* results = []; the with block is entered and
\* futures = {executor.submit(func, item): item for item in items}
ProcessWithProgress(items, func) ==
    /\ pp_pc = "idle"
    /\ pp_pc' = "pool"
    /\ pp_items' = items
    /\ pp_func' = func
    /\ pp_futures' = [k \in 1..Len(items) |-> "pending"]
    /\ pp_yielded' = <<>>
    /\ pp_results' = <<>>
    /\ pp_errors' = <<>>
    /\ UNCHANGED <<rlVars, dlVars, cacheVars, callVars, ajVars>>

\* the futures in state st
FuturesIn(fs, st) == {k \in 1..Len(fs) : fs[k] = st}

\* a worker of the pool may take work item k: the executor's queue is first
\* in, first out, and the pool has max_workers threads
MayTake(fs, k) ==
    /\ fs[k] = "pending"
    /\ \A j \in 1..(k - 1) : fs[j] # "pending"
    /\ Cardinality(FuturesIn(fs, "running")) < MAX_WORKERS

\* a worker thread starts func(item) of the k-th submitted work item
PoolTaskStart(k) ==
    /\ pp_pc = "pool"
    /\ k \in 1..Len(pp_futures)
    /\ MayTake(pp_futures, k)
    /\ pp_futures' = [pp_futures EXCEPT ![k] = "running"]
    /\ UNCHANGED <<pp_pc, pp_items, pp_func, pp_yielded, pp_results, pp_errors>>
    /\ UNCHANGED <<rlVars, dlVars, cacheVars, callVars, ajVars>>

\* func(item) returns or raises in its worker thread: the future is done
PoolTaskEnd(k) ==
    /\ pp_pc = "pool"
    /\ k \in 1..Len(pp_futures)
    /\ pp_futures[k] = "running"
    /\ pp_futures' = [pp_futures EXCEPT ![k] = "finished"]
    /\ UNCHANGED <<pp_pc, pp_items, pp_func, pp_yielded, pp_results, pp_errors>>
    /\ UNCHANGED <<rlVars, dlVars, cacheVars, callVars, ajVars>>

Range(s) == {s[j] : j \in 1..Len(s)}

\* the futures as_completed(futures) may yield next: the finished ones it
\* has not yielded yet
AsCompleted(fs, ys) == FuturesIn(fs, "finished") \ Range(ys)

\* a loop that is left after the first future
FirstYielded(fs, ys) == ys # <<>> \/ fs = <<>>

\* as_completed(futures) is exhausted: it has yielded every future
AllYielded(fs, ys) == Range(ys) = 1..Len(fs)

\* a loop body that drops the item whose function raised
CollectedDropsRaising(outcome) ==
    IF outcome.raises THEN <<>> ELSE <<outcome.value>>

\* what one iteration of the loop appends to `results` for a future:
\* future.result(), or None when future.result() raises
Collected(outcome) ==
    IF outcome.raises THEN <<None>> ELSE <<outcome.value>>

\* a loop that puts the newest result first
AddResultInFront(results, new) == new \o results

\* results.append(...)
AddResult(results, new) == results \o new

\* one iteration of `for i, future in enumerate(as_completed(futures))`
PoolCollect(k) ==
    /\ pp_pc = "pool"
    /\ k \in AsCompleted(pp_futures, pp_yielded)
    /\ LET outcome == pp_func[pp_items[k]]
       IN  /\ pp_results' = AddResult(pp_results, Collected(outcome))
           /\ pp_errors' = IF outcome.raises THEN Append(pp_errors, pp_items[k])
                           ELSE pp_errors
    /\ pp_yielded' = Append(pp_yielded, k)
    /\ UNCHANGED <<pp_pc, pp_items, pp_func, pp_futures>>
    /\ UNCHANGED <<rlVars, dlVars, cacheVars, callVars, ajVars>>

\* as_completed is exhausted, the with block ends and `return results`
PoolReturn ==
    /\ pp_pc = "pool"
    /\ AllYielded(pp_futures, pp_yielded)
    /\ pp_pc' = "returned"
    /\ UNCHANGED <<pp_items, pp_func, pp_futures, pp_yielded, pp_results, pp_errors>>
    /\ UNCHANGED <<rlVars, dlVars, cacheVars, callVars, ajVars>>

(***************************************************************************)
(* analyze_journal                                                         *)
(***************************************************************************)
\* works of one listing
MaxSeeds == 2

\* period_str as its comma separated parts: a year, a range s-e, or a text
\* that int() rejects
YearPart(y) == [kind |-> "year", s |-> y, e |-> y]
RangePart(s, e) == [kind |-> "range", s |-> s, e |-> e]
TextPart == [kind |-> "text", s |-> 0, e |-> 0]

\* the years one part adds to `years`
PartYears(part) ==
    IF part.kind = "text" THEN {}
    ELSE IF /\ 1900 <= part.s /\ part.s <= 2100
            /\ 1900 <= part.e /\ part.e <= 2100
            /\ part.s <= part.e
    THEN part.s..part.e
    ELSE {}

\* parse_period(period_str), as the set of the years it returns
parse_period(period_str) ==
    UNION {PartYears(period_str[j]) : j \in 1..Len(period_str)}

Periods == {<<RangePart(2020, 2021)>>, <<YearPart(1800)>>,
            <<RangePart(2021, 2020)>>, <<TextPart>>, <<>>}

\* the works a listing may hold: item['DOI'] ("" when the key is missing) and
\* the year of item['created']['date-parts'] (0 when there is none)
RawItems ==
    {[DOI |-> "10.1/A", created |-> 2020],
     [DOI |-> "10.1/c", created |-> 2020],
     [DOI |-> "", created |-> 2020],
     [DOI |-> "doi:10.1/c", created |-> 2020],
     [DOI |-> "10.1/c", created |-> 1800]}

\* doi.lower().strip()
LowerStrip(doi) == IF doi = "10.1/A" THEN "10.1/a" ELSE doi

\* doi.startswith('10.')
StartsWith10(doi) == doi \in {"10.1/a", "10.1/b", "10.1/c", "10.1/A"}

\* the items validate_and_clean_data does not skip
Validated(item) ==
    /\ item.DOI # ""
    /\ StartsWith10(LowerStrip(item.DOI))
    /\ item.created # 0 /\ item.created >= 1900

validate_and_clean_data(items) ==
    LET kept == SelectSeq(items, Validated)
    IN  [j \in 1..Len(kept) |-> [kept[j] EXCEPT !.DOI = LowerStrip(@)]]

\* [item.get('DOI') for item in validated_items if item.get('DOI')]
SeedDOIs(validated_items) ==
    LET HasDOI(item) == item.DOI # ""
        with == SelectSeq(validated_items, HasDOI)
    IN  [j \in 1..Len(with) |-> with[j].DOI]

\* the result sets fetch_articles_by_issn_period is run against
AnalyzeScripts ==
    {<<[items |-> l, more |-> FALSE]>> : l \in SeqsUpTo(RawItems, MaxSeeds)}

AJInit ==
    /\ aj_pc = "idle"
    /\ aj_issn = ""
    /\ aj_period = <<>>
    /\ aj_items = <<>>
    /\ journal_name = ""
    /\ dois = <<>>
    /\ analyzed_dois = <<>>
    /\ futures = <<>>
    /\ yielded = <<>>
    /\ analyzed_metadata = <<>>
    /\ all_citing_metadata = <<>>
    /\ analysis_complete = FALSE
    /\ analysis_results = None

\* a submitted work item
Submitted == [state |-> "pending", thread |-> NoThread, raised |-> FALSE, result |-> None]

\* {executor.submit(fn, args): args for args in args_list}
SubmitAll(args_list) == [k \in 1..Len(args_list) |-> Submitted]

FutureStates == [k \in 1..Len(futures) |-> futures[k].state]

\* analyze_journal(issn, period_str) up to the call of get_journal_name:
\* delayer = AdaptiveDelayer(), state.analysis_complete = False, and
\* `if not years: return`
AnalyzeJournal(issn, period_str) ==
    /\ aj_pc = "idle"
    /\ delay_index' = 0
    /\ dl_fails' = 0
    /\ dl_lock' = NoThread
    /\ dl_pc' = [t \in Threads |-> "idle"]
    /\ analysis_complete' = FALSE
    /\ aj_issn' = issn
    /\ aj_period' = period_str
    /\ aj_pc' = IF parse_period(period_str) = {} THEN "returned" ELSE "name"
    /\ UNCHANGED <<dl_success, dl_delay, dl_ret>>
    /\ UNCHANGED <<aj_items, journal_name, dois, analyzed_dois, futures, yielded,
                   analyzed_metadata, all_citing_metadata, analysis_results>>
    /\ UNCHANGED <<rlVars, cacheVars, callVars, ppVars>>

\* journal_name = get_journal_name(issn): the call
AnalyzeCallName ==
    /\ aj_pc = "name"
    /\ call[ScriptThread].status = "none"
    /\ StartJournal(ScriptThread, aj_issn)

\* journal_name = get_journal_name(issn): its return
AnalyzeGotName ==
    /\ aj_pc = "name"
    /\ call[ScriptThread].status = "returned"
    /\ journal_name' = call[ScriptThread].ret
    /\ aj_pc' = "articles"
    /\ UNCHANGED <<aj_issn, aj_period, aj_items, dois, analyzed_dois, futures,
                   yielded, analyzed_metadata, all_citing_metadata,
                   analysis_complete, analysis_results>>
    /\ UNCHANGED <<rlVars, dlVars, cacheVars, callVars, ppVars>>

\* items = fetch_articles_by_issn_period(issn, from_date, until_date): the
\* call, against a provider that holds the result set s
AnalyzeCallArticles(s) ==
    /\ aj_pc = "articles"
    /\ call[ScriptThread].fn = "journal"
    /\ StartBulk(ScriptThread, aj_issn, s)

\* a run that goes on without articles
NoArticlesIgnored(items) == FALSE

\* `if not items`
NoArticles(items) == items = <<>>

\* the return of fetch_articles_by_issn_period; `if not items: return`;
\* otherwise the validation and the submits of the first with block
AnalyzeGotArticles ==
    /\ aj_pc = "articles"
    /\ call[ScriptThread].fn = "bulk"
    /\ call[ScriptThread].status = "returned"
    /\ LET items == call[ScriptThread].ret
           validated_items == validate_and_clean_data(items)
       IN  /\ aj_items' = items
           /\ IF NoArticles(items)
              THEN /\ aj_pc' = "returned"
                   /\ UNCHANGED <<dois, futures>>
              ELSE /\ aj_pc' = "seeds"
                   /\ dois' = SeedDOIs(validated_items)
                   /\ futures' = SubmitAll(SeedDOIs(validated_items))
    /\ analyzed_metadata' = <<>>
    /\ yielded' = <<>>
    /\ UNCHANGED <<aj_issn, aj_period, journal_name, analyzed_dois,
                   all_citing_metadata, analysis_complete, analysis_results>>
    /\ UNCHANGED <<rlVars, dlVars, cacheVars, callVars, ppVars>>

InPool == aj_pc \in {"seeds", "citations"}

\* the worker threads that are running no work item
FreeWorkers == {t \in Threads :
                   \A k \in 1..Len(futures) :
                       ~(futures[k].state = "running" /\ futures[k].thread = t)}

\* a worker thread of the pool takes the k-th submitted work item; the
\* thread is the lowest free one, and what it called before is over
TaskStart(k) ==
    /\ InPool
    /\ k \in 1..Len(futures)
    /\ MayTake(FutureStates, k)
    /\ FreeWorkers # {}
    /\ LET t == CHOOSE w \in FreeWorkers : \A u \in FreeWorkers : w <= u
       IN  /\ futures' = [futures EXCEPT ![k].state = "running", ![k].thread = t]
           /\ call' = [call EXCEPT ![t] = NoCall]
    /\ UNCHANGED <<aj_pc, aj_issn, aj_period, aj_items, journal_name, dois,
                   analyzed_dois, yielded, analyzed_metadata,
                   all_citing_metadata, analysis_complete, analysis_results>>
    /\ UNCHANGED <<rlVars, dlVars, cacheVars, stack, script, ppVars>>

\* the worker calls the submitted function with the work item's arguments:
\* get_unified_metadata in the first with block, get_citing_dois_and_metadata
\* in the second
TaskCall(t, k) ==
    /\ InPool
    /\ k \in 1..Len(futures)
    /\ futures[k].state = "running" /\ futures[k].thread = t
    /\ call[t].status = "none"
    /\ IF aj_pc = "seeds" THEN StartUnified(t, dois[k])
       ELSE StartCiting(t, analyzed_dois[k])

\* the function returned or raised: the future is done
TaskEnd(k) ==
    /\ InPool
    /\ k \in 1..Len(futures)
    /\ futures[k].state = "running"
    /\ call[futures[k].thread].status \in {"returned", "raised"}
    /\ futures' = [futures EXCEPT ![k] =
                      [state |-> "finished", thread |-> NoThread,
                       raised |-> call[futures[k].thread].status = "raised",
                       result |-> call[futures[k].thread].ret]]
    /\ UNCHANGED <<aj_pc, aj_issn, aj_period, aj_items, journal_name, dois,
                   analyzed_dois, yielded, analyzed_metadata,
                   all_citing_metadata, analysis_complete, analysis_results>>
    /\ UNCHANGED <<rlVars, dlVars, cacheVars, callVars, ppVars>>

\* a loop that drops the seeds without a crossref record
SeedRecordIfResolved(doi, future) ==
    IF future.raised \/ future.result.crossref = None THEN <<>>
    ELSE <<[doi |-> doi, crossref |-> future.result.crossref,
            openalex |-> future.result.openalex]>>

\* what the first loop appends to analyzed_metadata for a future: the record
\* of the seed, or nothing when future.result() raises
SeedRecord(doi, future) ==
    IF future.raised THEN <<>>
    ELSE <<[doi |-> doi, crossref |-> future.result.crossref,
            openalex |-> future.result.openalex]>>

\* one iteration of the first `for i, future in enumerate(as_completed(futures))`
CollectSeed(k) ==
    /\ aj_pc = "seeds"
    /\ k \in AsCompleted(FutureStates, yielded)
    /\ analyzed_metadata' = analyzed_metadata \o SeedRecord(dois[k], futures[k])
    /\ yielded' = Append(yielded, k)
    /\ UNCHANGED <<aj_pc, aj_issn, aj_period, aj_items, journal_name, dois,
                   analyzed_dois, futures, all_citing_metadata,
                   analysis_complete, analysis_results>>
    /\ UNCHANGED <<rlVars, dlVars, cacheVars, callVars, ppVars>>

\* a list of the seeds that have a registry record only
AnalyzedDOIsResolved(metadata) ==
    LET Resolved(am) == am.doi # "" /\ am.crossref # None
        with == SelectSeq(metadata, Resolved)
    IN  [j \in 1..Len(with) |-> with[j].doi]

\* [am['doi'] for am in analyzed_metadata if am.get('doi')]
AnalyzedDOIs(metadata) ==
    LET HasDOI(am) == am.doi # ""
        with == SelectSeq(metadata, HasDOI)
    IN  [j \in 1..Len(with) |-> with[j].doi]

\* the first with block ends; all_citing_metadata = [], analyzed_dois, and
\* the submits of the second with block
SeedsDone ==
    /\ aj_pc = "seeds"
    /\ AllYielded(futures, yielded)
    /\ aj_pc' = "citations"
    /\ all_citing_metadata' = <<>>
    /\ analyzed_dois' = AnalyzedDOIs(analyzed_metadata)
    /\ futures' = SubmitAll(AnalyzedDOIs(analyzed_metadata))
    /\ yielded' = <<>>
    /\ UNCHANGED <<aj_issn, aj_period, aj_items, journal_name, dois,
                   analyzed_metadata, analysis_complete, analysis_results>>
    /\ UNCHANGED <<rlVars, dlVars, cacheVars, callVars, ppVars>>

RECURSIVE Dedup(_)
\* a list without the entries whose doi an earlier entry has
Dedup(s) ==
    IF s = <<>> THEN <<>>
    ELSE LET init == Dedup(SubSeq(s, 1, Len(s) - 1))
             last == s[Len(s)]
         IN  IF \E j \in 1..Len(init) : init[j].doi = last.doi
             THEN init ELSE Append(init, last)

\* a flattening that keeps one entry for each citing DOI
ExtendUnique(all, citings) == Dedup(all \o citings)

\* all_citing_metadata.extend(citings)
Extend(all, citings) == all \o citings

\* one iteration of the second loop: citings = future.result();
\* all_citing_metadata.extend(citings), or nothing when future.result() raises
CollectCitings(k) ==
    /\ aj_pc = "citations"
    /\ k \in AsCompleted(FutureStates, yielded)
    /\ all_citing_metadata' =
          IF futures[k].raised THEN all_citing_metadata
          ELSE Extend(all_citing_metadata, futures[k].result)
    /\ yielded' = Append(yielded, k)
    /\ UNCHANGED <<aj_pc, aj_issn, aj_period, aj_items, journal_name, dois,
                   analyzed_dois, futures, analyzed_metadata,
                   analysis_complete, analysis_results>>
    /\ UNCHANGED <<rlVars, dlVars, cacheVars, callVars, ppVars>>

\* the second with block ends
CitationsDone ==
    /\ aj_pc = "citations"
    /\ AllYielded(futures, yielded)
    /\ aj_pc' = "report"
    /\ UNCHANGED <<aj_issn, aj_period, aj_items, journal_name, dois,
                   analyzed_dois, futures, yielded, analyzed_metadata,
                   all_citing_metadata, analysis_complete, analysis_results>>
    /\ UNCHANGED <<rlVars, dlVars, cacheVars, callVars, ppVars>>

\* the entries of a metadata list whose 'crossref' is a record
WithCrossref(metadata_list) ==
    {j \in 1..Len(metadata_list) : metadata_list[j].crossref # None}

\* extract_stats_from_metadata raises IndexError at
\* sorted(ref_counts)[n_items//2]: ref_counts has one count for each entry
\* with a crossref record, n_items counts every entry
StatsRaise(metadata_list) ==
    LET n_items == Len(metadata_list)
    IN  n_items > 0 /\ n_items \div 2 >= Cardinality(WithCrossref(metadata_list))

\* the statistics and the report: the calls of get_citing_dois_and_metadata
\* they make find their list in state.citing_cache, the fast metrics and the
\* report catch what they raise; then state.analysis_results = {...} and
\* state.analysis_complete = True
Report ==
    /\ aj_pc = "report"
    /\ IF StatsRaise(analyzed_metadata) \/ StatsRaise(all_citing_metadata)
       THEN /\ aj_pc' = "raised"
            /\ UNCHANGED <<analysis_results, analysis_complete>>
       ELSE /\ aj_pc' = "done"
            /\ analysis_results' =
                  [journal_name |-> journal_name, issn |-> aj_issn,
                   period |-> aj_period, n_analyzed |-> Len(aj_items),
                   n_citing |-> Cardinality(
                       {all_citing_metadata[j].doi :
                           j \in {i \in 1..Len(all_citing_metadata) :
                                     all_citing_metadata[i].doi # ""}}),
                   analyzed_n_items |-> Len(analyzed_metadata),
                   citing_n_items |-> Len(all_citing_metadata)]
            /\ analysis_complete' = TRUE
    /\ UNCHANGED <<aj_issn, aj_period, aj_items, journal_name, dois,
                   analyzed_dois, futures, yielded, analyzed_metadata,
                   all_citing_metadata>>
    /\ UNCHANGED <<rlVars, dlVars, cacheVars, callVars, ppVars>>

\* a run that leaves the flag as the run before left it
CompleteAtStartKept(was) == was

\* state.analysis_complete = False, at the top of analyze_journal
CompleteAtStart(was) == FALSE

\* main, when the start button is pressed after a run of analyze_journal
\* has ended: `if not issn` and `if not period` return after st.error,
\* otherwise analyze_journal(issn, period) is called and runs up to its call
\* of get_journal_name, with new locals, while the AnalysisState of the
\* session keeps its caches, analysis_results and what analysis_complete was
\* until the assignment at the top of analyze_journal
MainStartAnalysis(issn, period_str) ==
    /\ aj_pc \in {"returned", "done", "raised"}
    /\ IF issn = "" \/ period_str = <<>>
       THEN UNCHANGED vars
       ELSE /\ delay_index' = 0
            /\ dl_fails' = 0
            /\ dl_lock' = NoThread
            /\ dl_pc' = [t \in Threads |-> "idle"]
            /\ analysis_complete' = CompleteAtStart(analysis_complete)
            /\ aj_issn' = issn
            /\ aj_period' = period_str
            /\ aj_pc' = IF parse_period(period_str) = {} THEN "returned" ELSE "name"
            /\ aj_items' = <<>>
            /\ journal_name' = ""
            /\ dois' = <<>>
            /\ analyzed_dois' = <<>>
            /\ futures' = <<>>
            /\ yielded' = <<>>
            /\ analyzed_metadata' = <<>>
            /\ all_citing_metadata' = <<>>
            /\ call' = [t \in Callers |-> NoCall]
            /\ UNCHANGED <<dl_success, dl_delay, dl_ret, analysis_results>>
            /\ UNCHANGED <<rlVars, cacheVars, stack, script, ppVars>>

(***************************************************************************)
(* Specifications                                                          *)
(***************************************************************************)
Init == RLInit /\ DLInit /\ CacheInit /\ CallInit /\ PPInit /\ AJInit

\* concurrent callers of rate_limiter.wait_if_needed
NextRL ==
    \/ \E t \in Threads : WaitIfNeededEnter(t)
    \/ \E t \in Threads : WaitIfNeededWake(t)
    \/ Tick

SpecRL == Init /\ [][NextRL]_vars

\* concurrent callers of delayer.wait
NextDelay ==
    \/ \E t \in Threads : \E success \in BOOLEAN : DelayerWaitEnter(t, success)
    \/ \E t \in Threads : DelayerWaitExit(t)

SpecDelay == Init /\ [][NextDelay]_vars

\* the thread of the specifications with a single caller
MainThread == CHOOSE t \in Threads : \A u \in Threads : t <= u

AllDOIs == DOIs \cup InvalidDOIs
AllCitingPages == UNION {CitingPages(cursor) : cursor \in 1..MaxPages}

\* a provider whose answer for a work is the same at every request
StableRecord(p, doi) ==
    IF p = "crossref" THEN [DOI |-> doi, payload |-> 1]
    ELSE [id |-> doi, cited_by_count |-> 1]
StableRecords == {StableRecord(p, doi) : p \in Providers, doi \in DOIs}
AllRecords == UNION {ProviderRecords(p, doi) : p \in Providers, doi \in DOIs}

\* one thread calling get_crossref_metadata, get_openalex_metadata and
\* get_unified_metadata one after the other on one AnalysisState; a request
\* ends in any of the Outcomes
Next ==
    \/ \E p \in Providers : \E doi \in AllDOIs : StartFetch(MainThread, p, doi)
    \/ \E doi \in AllDOIs : StartUnified(MainThread, doi)
    \/ FetchRateLimit(MainThread)
    \/ \E outcome \in Outcomes :
          \E rec \in StableRecords : FetchHttp(MainThread, outcome, rec)
    \/ FetchWait(MainThread)
    \/ UnifiedCallCrossref(MainThread)
    \/ UnifiedCallOpenAlex(MainThread)
    \/ UnifiedStore(MainThread)
    \/ Return(MainThread)

Spec == Init /\ [][Next]_vars

\* the thread has made no call yet
FirstCall(t) == call[t].status = "none"

\* one thread making one call on a fresh AnalysisState, of any of the
\* functions with a retry loop: the two single-record fetches, the journal
\* lookup, the bulk listing and the citing traversal with its nested
\* fetches; a request ends in any of the Outcomes, and a page body without
\* meta (an error body) has no results either

NextLoops ==
    \/ \E p \in Providers : \E doi \in {"10.1/a", "N/A"} :
          FirstCall(MainThread) /\ StartFetch(MainThread, p, doi)
    \/ \E issn \in ISSNs :
          FirstCall(MainThread) /\ StartJournal(MainThread, issn)
    \/ \E issn \in ISSNs : \E s \in {b \in BulkScripts : Len(b) < MaxBulkPages} :
          FirstCall(MainThread) /\ StartBulk(MainThread, issn, s)
    \/ FirstCall(MainThread) /\ StartCiting(MainThread, "10.1/a")
    \/ FetchRateLimit(MainThread)
    \/ \E outcome \in Outcomes :
          \E rec \in StableRecords : FetchHttp(MainThread, outcome, rec)
    \/ FetchWait(MainThread)
    \/ JournalRateLimit(MainThread)
    \/ \E outcome \in Outcomes : \E count \in {0, 1} : \E name \in JournalNames :
          JournalHttp(MainThread, outcome, count, name)
    \/ JournalWait(MainThread)
    \/ BulkRateLimit(MainThread)
    \/ \E outcome \in Outcomes : BulkHttp(MainThread, outcome)
    \/ BulkWait(MainThread)
    \/ CitingCallOpenAlex(MainThread)
    \/ CitingAfterOpenAlex(MainThread)
    \/ CitingRateLimit(MainThread)
    \/ \E outcome \in Outcomes :
          \E page \in {b \in AllCitingPages : b.meta \/ b.results = <<>>} :
             CitingHttp(MainThread, outcome, page)
    \/ CitingItem(MainThread)
    \/ CitingItemOpenAlex(MainThread)
    \/ CitingItemAppend(MainThread)
    \/ CitingWait(MainThread)
    \/ Return(MainThread)

SpecLoops == Init /\ [][NextLoops]_vars

\* the threads of the pool calling get_crossref_metadata and
\* get_openalex_metadata for the same DOI at the same time; the provider's
\* answer for a work may differ from one request to the next
NextRace ==
    \/ \E t \in Threads : \E p \in Providers : StartFetch(t, p, "10.1/a")
    \/ \E t \in Threads : FetchRateLimit(t)
    \/ \E t \in Threads : \E outcome \in {"ok", "non200"} :
          \E rec \in AllRecords : FetchHttp(t, outcome, rec)
    \/ \E t \in Threads : FetchWait(t)
    \/ \E t \in Threads : Return(t)

SpecRace == Init /\ [][NextRace]_vars

\* each thread of the pool making one call of a single-record fetch for the
\* same DOI on a fresh AnalysisState, at the same time; the provider's
\* answer for the work may differ from one request to the next
NextRedundant ==
    \/ \E t \in Threads : \E p \in Providers :
          FirstCall(t) /\ StartFetch(t, p, "10.1/a")
    \/ \E t \in Threads : FetchRateLimit(t)
    \/ \E t \in Threads : \E outcome \in {"ok", "non200"} :
          \E rec \in AllRecords : FetchHttp(t, outcome, rec)
    \/ \E t \in Threads : FetchWait(t)
    \/ \E t \in Threads : Return(t)

SpecRedundant == Init /\ [][NextRedundant]_vars

\* the seed's cited_by_count is 0 or more, the records of the citing works
\* are the same at every request
CitingRecords == StableRecords \cup OpenAlexRecords("10.1/a")

\* one thread calling get_citing_dois_and_metadata one call after the other;
\* a request ends in any of the Outcomes and every decoded page body is
\* well formed
NextCiting ==
    \/ \E doi \in {"10.1/a", "N/A"} : StartCiting(MainThread, doi)
    \/ FetchRateLimit(MainThread)
    \/ \E outcome \in Outcomes :
          \E rec \in CitingRecords : FetchHttp(MainThread, outcome, rec)
    \/ FetchWait(MainThread)
    \/ CitingCallOpenAlex(MainThread)
    \/ CitingAfterOpenAlex(MainThread)
    \/ CitingRateLimit(MainThread)
    \/ \E outcome \in Outcomes :
          \E page \in {b \in AllCitingPages : b.meta} :
             CitingHttp(MainThread, outcome, page)
    \/ CitingItem(MainThread)
    \/ CitingItemOpenAlex(MainThread)
    \/ CitingItemAppend(MainThread)
    \/ CitingWait(MainThread)
    \/ Return(MainThread)

SpecCiting == Init /\ [][NextCiting]_vars

\* one thread calling fetch_articles_by_issn_period once against a scripted
\* result set
NextBulk ==
    \/ \E issn \in ISSNs : \E s \in BulkScripts :
          FirstCall(MainThread) /\ StartBulk(MainThread, issn, s)
    \/ BulkRateLimit(MainThread)
    \/ \E outcome \in Outcomes : BulkHttp(MainThread, outcome)
    \/ BulkWait(MainThread)
    \/ Return(MainThread)

SpecBulk == Init /\ [][NextBulk]_vars

\* one call of process_with_progress with any function and any items
NextDispatch ==
    \/ \E items \in SeqsUpTo(DispatchItems, MaxItems) : \E func \in Funcs :
          ProcessWithProgress(items, func)
    \/ \E k \in 1..MaxItems : PoolTaskStart(k)
    \/ \E k \in 1..MaxItems : PoolTaskEnd(k)
    \/ \E k \in 1..MaxItems : PoolCollect(k)
    \/ PoolReturn

SpecDispatch == Init /\ [][NextDispatch]_vars

\* the seeds after validation, and the works the providers know
SeedSet == {"10.1/a", "10.1/c"}
KnownDOIs == SeedSet \cup DOIs

\* the records of the providers during one analysis: a seed is cited or not
AnalyzeRecords ==
    {StableRecord(p, doi) : p \in Providers, doi \in KnownDOIs}
        \cup {[id |-> doi, cited_by_count |-> 0] : doi \in SeedSet}

\* the registry and the open-metadata provider answer every request but
\* those about the work 10.1/c, which may fail; a request that failed fails
\* again when it is retried
Answers(t, outcome) ==
    /\ ~Idle(t)
    /\ outcome = "ok" => Top(t).i = 0
    /\ outcome # "ok" => Top(t).arg = "10.1/c"

\* the pages of citing works: one page, of one work or none
AnalyzePages ==
    {b \in AllCitingPages :
        /\ b.meta /\ b.next_cursor = 0
        /\ \A j \in 1..Len(b.results) : b.results[j].doi # ""}

\* one run of analyze_journal on a fresh AnalysisState with the Threads as
\* the workers of its two pools; the journal is found and its listing is
\* answered, the requests of single records are answered, but for the work
\* 10.1/c, and so are the pages of citing works
NextAnalyze ==
    \/ \E issn \in ISSNs : \E period_str \in Periods : AnalyzeJournal(issn, period_str)
    \/ AnalyzeCallName
    \/ JournalRateLimit(ScriptThread)
    \/ \E name \in JournalNames : JournalHttp(ScriptThread, "ok", 1, name)
    \/ JournalWait(ScriptThread)
    \/ AnalyzeGotName
    \/ \E s \in AnalyzeScripts : AnalyzeCallArticles(s)
    \/ BulkRateLimit(ScriptThread)
    \/ BulkHttp(ScriptThread, "ok")
    \/ BulkWait(ScriptThread)
    \/ AnalyzeGotArticles
    \/ \E k \in 1..MaxSeeds : TaskStart(k)
    \/ \E t \in Threads : \E k \in 1..MaxSeeds : TaskCall(t, k)
    \/ \E t \in Threads : UnifiedCallCrossref(t)
    \/ \E t \in Threads : UnifiedCallOpenAlex(t)
    \/ \E t \in Threads : UnifiedStore(t)
    \/ \E t \in Threads : FetchRateLimit(t)
    \/ \E t \in Threads : \E outcome \in {"ok", "non200"} : \E rec \in AnalyzeRecords :
          Answers(t, outcome) /\ FetchHttp(t, outcome, rec)
    \/ \E t \in Threads : FetchWait(t)
    \/ \E t \in Threads : CitingCallOpenAlex(t)
    \/ \E t \in Threads : CitingAfterOpenAlex(t)
    \/ \E t \in Threads : CitingRateLimit(t)
    \/ \E t \in Threads : \E page \in AnalyzePages : CitingHttp(t, "ok", page)
    \/ \E t \in Threads : CitingItem(t)
    \/ \E t \in Threads : CitingItemOpenAlex(t)
    \/ \E t \in Threads : CitingItemAppend(t)
    \/ \E t \in Threads : CitingWait(t)
    \/ \E t \in Callers : Return(t)
    \/ \E k \in 1..MaxSeeds : TaskEnd(k)
    \/ \E k \in 1..MaxSeeds : CollectSeed(k)
    \/ SeedsDone
    \/ \E k \in 1..MaxSeeds : CollectCitings(k)
    \/ CitationsDone
    \/ Report

SpecAnalyze == Init /\ [][NextAnalyze]_vars

\* what the user may have typed when the button is pressed again
TypedISSNs == ISSNs \cup {""}

\* the listings of the journal with one work at most
ShortListings == {s \in AnalyzeScripts : Len(s[1].items) <= 1}

\* the runs of analyze_journal of one session, one after the other on the
\* same AnalysisState, each started from main after the one before has
\* ended; the providers answer as in NextAnalyze and the journal lists one
\* work at most
NextSession ==
    \/ \E issn \in ISSNs : \E period_str \in Periods : AnalyzeJournal(issn, period_str)
    \/ \E issn \in TypedISSNs : \E period_str \in Periods :
          MainStartAnalysis(issn, period_str)
    \/ AnalyzeCallName
    \/ JournalRateLimit(ScriptThread)
    \/ \E name \in JournalNames : JournalHttp(ScriptThread, "ok", 1, name)
    \/ JournalWait(ScriptThread)
    \/ AnalyzeGotName
    \/ \E s \in ShortListings : AnalyzeCallArticles(s)
    \/ BulkRateLimit(ScriptThread)
    \/ BulkHttp(ScriptThread, "ok")
    \/ BulkWait(ScriptThread)
    \/ AnalyzeGotArticles
    \/ \E k \in 1..MaxSeeds : TaskStart(k)
    \/ \E t \in Threads : \E k \in 1..MaxSeeds : TaskCall(t, k)
    \/ \E t \in Threads : UnifiedCallCrossref(t)
    \/ \E t \in Threads : UnifiedCallOpenAlex(t)
    \/ \E t \in Threads : UnifiedStore(t)
    \/ \E t \in Threads : FetchRateLimit(t)
    \/ \E t \in Threads : \E outcome \in {"ok", "non200"} : \E rec \in AnalyzeRecords :
          Answers(t, outcome) /\ FetchHttp(t, outcome, rec)
    \/ \E t \in Threads : FetchWait(t)
    \/ \E t \in Threads : CitingCallOpenAlex(t)
    \/ \E t \in Threads : CitingAfterOpenAlex(t)
    \/ \E t \in Threads : CitingRateLimit(t)
    \/ \E t \in Threads : \E page \in AnalyzePages : CitingHttp(t, "ok", page)
    \/ \E t \in Threads : CitingItem(t)
    \/ \E t \in Threads : CitingItemOpenAlex(t)
    \/ \E t \in Threads : CitingItemAppend(t)
    \/ \E t \in Threads : CitingWait(t)
    \/ \E t \in Callers : Return(t)
    \/ \E k \in 1..MaxSeeds : TaskEnd(k)
    \/ \E k \in 1..MaxSeeds : CollectSeed(k)
    \/ SeedsDone
    \/ \E k \in 1..MaxSeeds : CollectCitings(k)
    \/ CitationsDone
    \/ Report

SpecSession == Init /\ [][NextSession]_vars

\* no provider can be reached
Outage == {"non200", "exception"}

\* the listings that hold works
ListingsWithWorks == {s \in AnalyzeScripts : s[1].items # <<>>}

\* one run of analyze_journal on a fresh AnalysisState while no provider can
\* be reached: every requests.get ends with a status other than 200 or with
\* an exception; the calls in the script thread return
NextOutage ==
    \/ \E issn \in ISSNs : \E period_str \in Periods : AnalyzeJournal(issn, period_str)
    \/ AnalyzeCallName
    \/ JournalRateLimit(ScriptThread)
    \/ \E outcome \in Outage : \E name \in JournalNames :
          JournalHttp(ScriptThread, outcome, 1, name)
    \/ JournalWait(ScriptThread)
    \/ AnalyzeGotName
    \/ \E s \in ListingsWithWorks : AnalyzeCallArticles(s)
    \/ BulkRateLimit(ScriptThread)
    \/ \E outcome \in Outage : BulkHttp(ScriptThread, outcome)
    \/ BulkWait(ScriptThread)
    \/ AnalyzeGotArticles
    \/ Return(ScriptThread)

SpecOutage == Init /\ [][NextOutage]_vars /\ WF_vars(NextOutage)

\* the result set of works citing 10.1/a: the work 10.1/b, on the first
\* page, and after it works without a DOI at most; a body is a page of it,
\* with or without its meta field
OfResultSet(t, page) ==
    /\ ~Idle(t)
    /\ Top(t).cursor = 1 =>
          Len(page.results) = 1 /\ page.results[1].doi = "10.1/b"
    /\ Top(t).cursor # 1 =>
          \A j \in 1..Len(page.results) : page.results[j].doi = ""

\* one thread making one call of get_citing_dois_and_metadata for a cited
\* seed on a fresh AnalysisState; the single records are answered, a page
\* request ends with a status 200 or another one, and the body of a status
\* 200 is a page of the result set that may lack its meta field
NextRetry ==
    \/ FirstCall(MainThread) /\ StartCiting(MainThread, "10.1/a")
    \/ FetchRateLimit(MainThread)
    \/ \E rec \in StableRecords : FetchHttp(MainThread, "ok", rec)
    \/ FetchWait(MainThread)
    \/ CitingCallOpenAlex(MainThread)
    \/ CitingAfterOpenAlex(MainThread)
    \/ CitingRateLimit(MainThread)
    \/ \E outcome \in {"ok", "non200"} : \E page \in AllCitingPages :
          OfResultSet(MainThread, page) /\ CitingHttp(MainThread, outcome, page)
    \/ CitingItem(MainThread)
    \/ CitingItemOpenAlex(MainThread)
    \/ CitingItemAppend(MainThread)
    \/ CitingWait(MainThread)
    \/ Return(MainThread)

SpecRetry == Init /\ [][NextRetry]_vars

(***************************************************************************)
(* Properties                                                              *)
(***************************************************************************)
ReleasedWithin(j) ==
    {k \in 1..Len(released) :
        released[j] - TicksPerSecond < released[k] /\ released[k] <= released[j]}

\* C1: in every interleaving of callers of wait_if_needed, no window of one
\* second holds more than calls_per_second returns of wait_if_needed.
C1_RateWindow ==
    \A j \in 1..Len(released) : Cardinality(ReleasedWithin(j)) <= calls_per_second

DelayIndexInRange == delay_index \in 0..(Len(DELAYS) - 1)

WaitStarts(t) == dl_pc[t] = "idle" /\ dl_pc'[t] = "sleeping"

C2_WaitStep ==
    \A t \in Threads :
        WaitStarts(t) =>
            /\ dl_success'[t] => delay_index' = 0
            /\ ~dl_success'[t] =>
                  /\ delay_index' = Min(delay_index + 1, Len(DELAYS) - 1)
                  /\ delay_index' >= delay_index
            /\ dl_delay'[t] = DELAYS[delay_index' + 1]
            /\ dl_delay'[t] > 0

\* C2: wait(success=False) moves the index from i to min(i+1, last tier),
\* never down; wait(success=True) sets it to 0; the index stays within
\* 0..len(DELAYS)-1 and the delay slept is DELAYS[index after the update],
\* which is positive.
C2_Backoff == []DelayIndexInRange /\ [][C2_WaitStep]_vars

\* the last tier has been reached by failures, was held by one more failure
\* and a success has then reset the index
C2_Witness ==
    \E t \in Threads :
        /\ dl_pc[t] = "sleeping"
        /\ dl_success[t]
        /\ delay_index = 0
        /\ \E u \in Threads : dl_ret[u] = DELAYS[Len(DELAYS)]

FramesOf(t) == {stack[t][k] : k \in 1..Len(stack[t])}
AllFrames == UNION {FramesOf(t) : t \in Callers}
FetchFrames == {f \in AllFrames : f.fn \in Providers}

C3_Returns ==
    /\ \A t \in Threads : call[t].status # "raised"
    /\ \A f \in FetchFrames :
          /\ f.attempts <= RETRIES
          /\ (f.pc = "ret" /\ f.outcome # "ok") =>
                /\ f.result = None
                /\ f.attempts = RETRIES
                /\ f.arg \notin DOMAIN CacheOf(f.fn)

\* the step is a request of a single-record fetch that ends with a status
\* 200 whose body is decoded
StoringStep ==
    \E t \in Threads :
        /\ Running(t, Providers, "http")
        /\ stack'[t] # <<>>
        /\ stack'[t][Len(stack'[t])].pc = "wait"
        /\ stack'[t][Len(stack'[t])].outcome = "ok"

C3_CacheStep ==
    (crossref_cache' # crossref_cache \/ openalex_cache' # openalex_cache)
        => StoringStep

\* C3: a single-record fetch of an uncached, non-empty DOI makes at most
\* RETRIES requests; when its last request has not given a record it has
\* made RETRIES of them and returns None, no exception leaves it, the DOI is
\* not in the provider's cache, and only a request that ends with a status
\* 200 changes a record cache.
C3_Exhaustion == []C3_Returns /\ [][C3_CacheStep]_vars

\* a fetch about to return None after RETRIES requests, the last of which
\* raised
C3_Witness ==
    \E t \in Threads :
        /\ call[t].fn \in Providers
        /\ call[t].requested
        /\ \E f \in FramesOf(t) :
              /\ f.fn \in Providers
              /\ f.pc = "ret"
              /\ f.attempts = RETRIES
              /\ f.outcome = "exception"
              /\ f.result = None

LoopFns == Providers \cup {"journal", "bulk", "citing"}
Requesting == {"http", "page_http"}
Answered == {"wait", "page_wait", "item", "item_oa", "item_append"}

\* the calls a frame has made in its current `for` loop, and those of the
\* latest iteration, are in the order wait_if_needed, requests.get, wait
FrameOrder(f) ==
    LET n == Len(f.log)
    IN  /\ f.admits = f.attempts + (IF f.pc \in Requesting THEN 1 ELSE 0)
        /\ f.attempts = f.waits + (IF f.pc \in Answered THEN 1 ELSE 0)
        /\ n <= 3
        /\ (f.pc \in Requesting) <=> (n = 1)
        /\ (f.pc \in Answered) <=> (n = 2)
        /\ n >= 1 => f.log[1] = "rl"
        /\ n = 3 =>
              /\ f.log[3] = (IF f.log[2] = "ok" THEN "wait_true" ELSE "wait_false")
              /\ f.log[3] = "wait_true" =>
                    \/ f.pc = "ret"
                    \/ /\ f.pc = "page_rl" /\ f.i = 0 /\ f.cursor # 0
                       /\ f.fn = "bulk" => f.cursor = f.fetched + 1
                       /\ f.fn = "citing" => f.cursor = f.data.next_cursor
              /\ f.log[3] = "wait_false" => f.pc \in {"rl", "page_rl", "ret"}

\* C4: in every fetch loop each requests.get is preceded by exactly one
\* wait_if_needed and followed by exactly one delayer.wait before the next
\* request or the return; the wait is wait(success=True) exactly when the
\* request gave a status 200 whose body was used; after wait(success=True)
\* the fetch returns or the paging loop goes to another page.
C4_AttemptOrder == \A f \in AllFrames : f.fn \in LoopFns => FrameOrder(f)

\* a nested fetch of the citing traversal returns a record on its second
\* request, between the second request of a page and the wait of that page
C4_Witness ==
    \E t \in Threads :
        /\ Len(stack[t]) = 2
        /\ stack[t][1].fn = "citing"
        /\ stack[t][1].i = 1
        /\ stack[t][1].log = <<"rl", "ok">>
        /\ stack[t][2].pc = "ret"
        /\ stack[t][2].i = 1
        /\ stack[t][2].log = <<"rl", "ok", "wait_true">>

\* the call repeats the thread's previous call of a single-record fetch
Memoizable(c) == c.repeat /\ c.fn \in Providers

\* C5 as stated: for every DOI the second of two sequential calls of a
\* single-record fetch issues no request and returns what the first returned.
C5_MemoizedAlways ==
    \A t \in Threads :
        Memoizable(call[t]) =>
            /\ ~call[t].requested
            /\ call[t].status = "returned" => call[t].ret = call[t].first_ret

\* the first call returned a record, or the DOI is empty or 'N/A'
Hit(c) == Memoizable(c) /\ (c.first_ret # None \/ c.arg \in InvalidDOIs)

C5_HitReturns ==
    \A t \in Threads :
        Hit(call[t]) =>
            /\ call[t].status = "returned"
            /\ call[t].ret = call[t].first_ret
            /\ ~call[t].admitted /\ ~call[t].requested /\ ~call[t].waited

C5_HitStep ==
    \A t \in Threads :
        (call'[t] # call[t] /\ Hit(call'[t])) =>
            UNCHANGED <<timestamps, delay_index, cacheVars>>

\* C5 amended: when the first of two sequential calls of a single-record
\* fetch returned a record (or the DOI is empty or 'N/A'), the second
\* returns the same value at once, makes no call of wait_if_needed,
\* requests.get or delayer.wait, and changes neither the timestamps, the
\* backoff tier nor the caches.
C5_MemoizedRecord == []C5_HitReturns /\ [][C5_HitStep]_vars

\* a second call answered from the cache while the backoff tier is raised
C5_Witness ==
    \E t \in Threads :
        /\ Hit(call[t])
        /\ call[t].first_ret # None
        /\ call[t].status = "returned"
        /\ delay_index > 0

\* C6: a fetch that returns None for a non-empty DOI has made requests and
\* has not added the DOI to the provider's cache, and the next fetch of the
\* same DOI enters the retry loop again, with at most RETRIES requests.
C6_NegativeNotCached ==
    /\ \A f \in FetchFrames : f.attempts <= RETRIES
    /\ \A t \in Threads :
          LET c == call[t]
          IN  (c.fn \in Providers /\ c.arg \in DOIs) =>
                 /\ (c.status = "returned" /\ c.ret = None) =>
                       c.requested /\ c.arg \notin DOMAIN CacheOf(c.fn)
                 /\ (c.repeat /\ c.first_ret = None) =>
                       /\ c.status = "running" =>
                             \E f \in FramesOf(t) : f.fn = c.fn /\ f.arg = c.arg
                       /\ c.status = "returned" => c.requested

\* after a fetch that returned None, the next fetch of the same DOI has made
\* RETRIES requests and returned None again
C6_Witness ==
    \E t \in Threads :
        /\ call[t].fn \in Providers
        /\ call[t].arg \in DOIs
        /\ call[t].repeat
        /\ call[t].first_ret = None
        /\ call[t].status = "returned"
        /\ call[t].requested
        /\ call[t].ret = None

\* every key of cache c is in d with the same value
Kept(c, d) == \A k \in DOMAIN c : k \in DOMAIN d /\ d[k] = c[k]

\* C7: once a record is stored for (provider, DOI) the cached value for that
\* key never changes, also when two workers both miss the cache and both
\* complete a fetch of the DOI.
C7_NeverOverwritten ==
    [][/\ Kept(crossref_cache, crossref_cache')
       /\ Kept(openalex_cache, openalex_cache')]_vars

\* C8: for every DOI d in the unified cache, unified_cache[d] is the pair of
\* what the two provider caches hold for d (None when absent).
C8_UnifiedAgrees ==
    \A d \in DOMAIN unified_cache :
        unified_cache[d] = [crossref |-> Get(crossref_cache, d),
                            openalex |-> Get(openalex_cache, d)]

\* C9: get_citing_dois_and_metadata(d) returns with its result stored in
\* citing_cache[d] on every return path, and a later call for d returns that
\* list at once, without wait_if_needed, requests.get or delayer.wait.
C9_CitingCached ==
    /\ \A f \in AllFrames :
          (f.fn = "citing" /\ f.pc = "ret") =>
             f.arg \in DOMAIN citing_cache /\ citing_cache[f.arg] = f.result
    /\ \A t \in Threads :
          LET c == call[t]
          IN  c.fn = "citing" =>
                 /\ c.status = "returned" =>
                       c.arg \in DOMAIN citing_cache /\ citing_cache[c.arg] = c.ret
                 /\ c.repeat =>
                       /\ c.status = "returned"
                       /\ c.ret = c.first_ret
                       /\ ~c.admitted /\ ~c.requested /\ ~c.waited

\* a second call for a seed whose traversal found a citing work
C9_Witness ==
    \E t \in Threads :
        /\ call[t].fn = "citing"
        /\ call[t].repeat
        /\ call[t].status = "returned"
        /\ call[t].ret # <<>>
        /\ call[t].ret = citing_cache[call[t].arg]

\* the first page of a result set that ends the listing
FirstLastPage(s) ==
    CHOOSE k \in 1..Len(s) : LastPage(s[k]) /\ \A j \in 1..(k - 1) : ~LastPage(s[j])

RECURSIVE ConcatItems(_, _)
\* the items of the first k pages of s, in page order
ConcatItems(s, k) == IF k = 0 THEN <<>> ELSE ConcatItems(s, k - 1) \o s[k].items

BulkFrameStops(f, s) ==
    LET k == FirstLastPage(s)
    IN  /\ f.fetched <= k
        /\ f.pc \in {"page_rl", "page_http"} =>
              f.cursor = f.fetched + 1 /\ f.fetched < k
        /\ f.fetched = k => f.pc \in {"page_wait", "ret"}
        /\ (f.pc = "ret" /\ f.success) =>
              /\ f.fetched = k
              /\ f.result = ConcatItems(s, k)

\* C10: the bulk listing requests no page after a status 200 with an empty
\* items page or without a next cursor; for a scripted result set it takes
\* each page up to that one from exactly one status 200 and returns the
\* concatenation of their items in page order.
C10_BulkStops ==
    \A t \in Threads :
        \A f \in FramesOf(t) : f.fn = "bulk" => BulkFrameStops(f, script[t])

\* a listing of MaxBulkPages pages, the last of them asked for twice, about to
\* return two different items
C10_Witness ==
    \E t \in Threads :
        \E f \in FramesOf(t) :
            /\ f.fn = "bulk" /\ f.pc = "ret" /\ f.success
            /\ f.fetched = MaxBulkPages
            /\ f.i >= 1
            /\ Len(f.result) >= 2
            /\ f.result[1] # f.result[2]

\* C11: the paging loop of get_citing_dois_and_metadata requests no page
\* after a status 200 whose results are empty or whose next_cursor is null.
C11_CitingStops ==
    \A f \in AllFrames :
        (f.fn = "citing" /\ f.pc \in {"page_rl", "page_http"} /\ f.fetched >= 1) =>
            f.data.results # <<>> /\ f.data.next_cursor # 0

PagingFns == {"bulk", "citing"}

\* the last request of the frame's `for` loop was its RETRIES-th and failed
Exhausted(f) ==
    Len(f.log) = 3 /\ f.log[3] = "wait_false" /\ f.attempts = RETRIES

IsPrefix(a, b) == Len(a) <= Len(b) /\ SubSeq(b, 1, Len(a)) = a

C12_Ends ==
    \A t \in Threads :
        \A f \in FramesOf(t) :
            f.fn \in PagingFns =>
                /\ Exhausted(f) => f.pc = "ret"
                /\ f.pc = "ret" => f.result = f.acc
                /\ f.fn = "bulk" => f.acc = ConcatItems(script[t], f.fetched)

\* a paging call that goes on keeps what it has collected
C12_Keeps ==
    \A t \in Threads :
        \A k \in 1..Len(stack[t]) :
            (k <= Len(stack'[t]) /\ stack[t][k].fn \in PagingFns
                /\ stack'[t][k].fn = stack[t][k].fn) =>
               IsPrefix(stack[t][k].acc, stack'[t][k].acc)

\* C12: when a page request of the bulk listing or of the citing traversal
\* has failed RETRIES times in a row the paging loop returns at once, with
\* no further request, and what it returns is the list collected so far,
\* which no step has shortened; for the bulk listing that list is the
\* concatenation of the items of the pages taken.
C12_PartialKept == []C12_Ends /\ [][C12_Keeps]_vars

\* the second page of a citing traversal has failed RETRIES times and the
\* entry collected from the first page is about to be returned
C12_Witness ==
    \E f \in AllFrames :
        /\ f.fn = "citing" /\ f.pc = "ret"
        /\ Exhausted(f)
        /\ f.fetched >= 1
        /\ f.result # <<>>

\* C20: a not-found answer (a status other than 200 such as 404 on a record
\* fetch, a status 200 with meta.count = 0 on the journal lookup) ends the
\* fetch after that attempt: the wait that follows it is followed by the
\* return.
C20_NotFoundEnds ==
    \A f \in AllFrames :
        (f.fn \in Providers \cup {"journal"} /\ Len(f.log) = 3
            /\ f.log[2] \in {"non200", "empty"}) => f.pc = "ret"

\* what the item submitted k-th owes to `results`
Expected(k) ==
    LET outcome == pp_func[pp_items[k]]
    IN  IF outcome.raises THEN None ELSE outcome.value

Occurrences(s, v) == Cardinality({j \in 1..Len(s) : s[j] = v})

ExpectedResults == [k \in 1..Len(pp_items) |-> Expected(k)]

\* C13: process_with_progress over n items returns n results, None for each
\* item whose function raised and the function's value for each other item;
\* the exception is reported with st.error and does not leave the call, and
\* every item's function has run when the call returns.
C13_Dispatcher ==
    /\ pp_pc = "returned" =>
          /\ Len(pp_results) = Len(pp_items)
          /\ \A v \in Range(pp_results) \cup Range(ExpectedResults) :
                Occurrences(pp_results, v) = Occurrences(ExpectedResults, v)
          /\ \A k \in 1..Len(pp_items) : pp_futures[k] = "finished"
          /\ Len(pp_errors) =
                Cardinality({k \in 1..Len(pp_items) : pp_func[pp_items[k]].raises})
    /\ pp_pc = "pool" =>
          \/ AsCompleted(pp_futures, pp_yielded) # {}
          \/ FuturesIn(pp_futures, "running") # {}
          \/ \E k \in 1..Len(pp_futures) : MayTake(pp_futures, k)
          \/ Range(pp_yielded) = 1..Len(pp_futures)

C13_Witness ==
    /\ pp_pc = "returned"
    /\ Len(pp_items) = MaxItems
    /\ \E k \in 1..Len(pp_items) : pp_func[pp_items[k]].raises
    /\ \E k \in 1..Len(pp_items) : Expected(k) # None

\* C14 as stated: the None of a raising item is at the item's index of the
\* input list.
C14_SameIndex ==
    pp_pc = "returned" =>
        \A k \in 1..Len(pp_items) :
            pp_func[pp_items[k]].raises =>
                k <= Len(pp_results) /\ pp_results[k] = None

\* C14: the result at position j is that of the future as_completed yielded
\* j-th: the None of a raising item is at the position at which its future
\* was yielded, which is its index in the input only when the futures are
\* yielded in the order of the input.
C14_CompletionOrder ==
    /\ Len(pp_results) = Len(pp_yielded)
    /\ \A j \in 1..Len(pp_results) : pp_results[j] = Expected(pp_yielded[j])
    /\ (pp_pc = "returned" /\ pp_yielded = [k \in 1..Len(pp_items) |-> k]) =>
          pp_results = ExpectedResults

C14_Witness ==
    /\ pp_pc = "returned"
    /\ \E k \in 1..Len(pp_items) :
          /\ pp_func[pp_items[k]].raises
          /\ pp_results[k] # None
          /\ \E j \in 1..Len(pp_yielded) : pp_yielded[j] = k /\ j # k

\* the with blocks are over
AfterPools == aj_pc \in {"report", "done", "raised"}

RECURSIVE Flatten(_)
Flatten(lists) ==
    IF lists = <<>> THEN <<>>
    ELSE Flatten(SubSeq(lists, 1, Len(lists) - 1)) \o lists[Len(lists)]

RECURSIVE SumLen(_)
SumLen(lists) ==
    IF lists = <<>> THEN 0
    ELSE SumLen(SubSeq(lists, 1, Len(lists) - 1)) + Len(lists[Len(lists)])

\* the citing lists of the seeds, in the order their futures were yielded
YieldedLists == [j \in 1..Len(yielded) |-> futures[yielded[j]].result]

\* C15: the flattened list of citing entries is the concatenation of the
\* seeds' citing lists in the order their futures complete, and so as long
\* as their lengths together: a work citing two seeds has two entries.
C15_NoCrossSeedDedup ==
    (aj_pc = "citations" \/ AfterPools) =>
        /\ all_citing_metadata = Flatten(YieldedLists)
        /\ Len(all_citing_metadata) = SumLen(YieldedLists)
        /\ AfterPools =>
              Len(all_citing_metadata) =
                  SumLen([k \in 1..Len(futures) |-> futures[k].result])

C15_Witness ==
    /\ aj_pc = "done"
    /\ Len(analyzed_dois) = 2 /\ analyzed_dois[1] # analyzed_dois[2]
    /\ \A k \in 1..2 : \E j \in 1..Len(futures[k].result) :
          futures[k].result[j].doi = "10.1/b"
    /\ Cardinality({j \in 1..Len(all_citing_metadata) :
                       all_citing_metadata[j].doi = "10.1/b"}) = 2
    /\ yielded = <<2, 1>>

\* C16: when the first with block is over, analyzed_metadata has one entry
\* for each validated item, those whose crossref record is None included.
C16_SeedRecords ==
    (aj_pc = "citations" \/ AfterPools) =>
        /\ Len(dois) = Len(validate_and_clean_data(aj_items))
        /\ Len(analyzed_metadata) = Len(dois)
        /\ \A d \in Range(dois) :
              Cardinality({j \in 1..Len(analyzed_metadata) :
                              analyzed_metadata[j].doi = d})
                 = Cardinality({k \in 1..Len(dois) : dois[k] = d})

C16_Witness ==
    /\ aj_pc = "citations"
    /\ Len(dois) = MaxSeeds
    /\ \E j \in 1..Len(analyzed_metadata) : analyzed_metadata[j].crossref = None
    /\ \E j \in 1..Len(analyzed_metadata) : analyzed_metadata[j].crossref # None

\* the steps of analyze_journal from one position to another
PhaseOrder ==
    {<<"idle", "name">>, <<"idle", "returned">>, <<"name", "articles">>,
     <<"articles", "seeds">>, <<"articles", "returned">>,
     <<"seeds", "citations">>, <<"citations", "report">>,
     <<"report", "done">>, <<"report", "raised">>}

AllFinished == \A k \in 1..Len(futures) : futures[k].state = "finished"

\* the function a worker thread is inside
WorkerIn(t) == IF call[t].status = "running" THEN call[t].fn ELSE "none"

C17_Step ==
    /\ aj_pc' # aj_pc => <<aj_pc, aj_pc'>> \in PhaseOrder
    /\ (aj_pc \in {"seeds", "citations"} /\ aj_pc' # aj_pc) =>
          AllFinished /\ \A t \in Threads : WorkerIn(t) = "none"
    /\ (~analysis_complete /\ analysis_complete') => aj_pc = "report" /\ aj_pc' = "done"

C17_State ==
    /\ \A t \in Threads :
          /\ WorkerIn(t) = "citing" => aj_pc = "citations"
          /\ WorkerIn(t) = "unified" => aj_pc = "seeds"
    /\ aj_pc = "citations" => Len(futures) = Len(analyzed_metadata)
    /\ analysis_complete <=> aj_pc = "done"

\* C17: analyze_journal goes from the seed tasks to the citing tasks and
\* from these to the report only; no citing task runs while a seed task is
\* unfinished, and analysis_complete becomes True after every citing task.
C17_PhaseOrder == []C17_State /\ [][C17_Step]_vars

C17_Witness ==
    /\ aj_pc = "done"
    /\ analysis_complete
    /\ Len(dois) = MaxSeeds
    /\ Len(futures) = MaxSeeds
    /\ all_citing_metadata # <<>>

\* C18: when validation leaves no item, the run does not reach the end:
\* analysis_complete stays False and analysis_results is not set.
C18_FailedExit ==
    (aj_items # <<>> /\ validate_and_clean_data(aj_items) = <<>>) =>
        /\ aj_pc # "done"
        /\ ~analysis_complete
        /\ analysis_results = None

CitingFrames == {f \in AllFrames : f.fn = "citing"}

C19_Step ==
    \A t \in Threads :
        (Running(t, {"citing"}, "after_oa") /\ stack'[t] # stack[t]) =>
            LET f == Top(t)
                g == stack'[t][Len(stack'[t])]
            IN  (f.rv = None \/ f.rv.cited_by_count = 0) =>
                    /\ g.pc = "ret" /\ g.result = <<>>
                    /\ g.attempts = 0 /\ g.admits = 0 /\ g.fetched = 0

C19_State ==
    /\ \A f \in CitingFrames :
          (f.pc \notin {"call_oa", "after_oa"}
              /\ (f.oa_data = None \/ f.oa_data.cited_by_count = 0)) =>
                 /\ f.pc = "ret" /\ f.result = <<>>
                 /\ f.attempts = 0 /\ f.admits = 0 /\ f.fetched = 0
    /\ \A k \in 1..Len(futures) :
          (aj_pc = "citations" /\ futures[k].state = "finished"
              /\ Get(openalex_cache, analyzed_dois[k]) = None) =>
                 futures[k].result = <<>>
    /\ (AfterPools /\ \A k \in 1..Len(futures) : futures[k].result = <<>>) =>
          /\ all_citing_metadata = <<>>
          /\ Len(analyzed_metadata) = Len(dois)

\* C19: a citing call whose oa_data is None or has cited_by_count 0 returns
\* the empty list and requests no page of citing works; when every seed's
\* call does so, all_citing_metadata is empty and analyzed_metadata has its
\* entry for each seed.
C19_NothingCites == []C19_State /\ [][C19_Step]_vars

C19_Witness ==
    /\ AfterPools
    /\ Len(dois) = MaxSeeds
    /\ \A j \in 1..Len(analyzed_metadata) :
          /\ analyzed_metadata[j].openalex # None
          /\ analyzed_metadata[j].openalex.cited_by_count = 0
    /\ \A d \in Range(analyzed_dois) : Get(citing_cache, d) = <<>>
    /\ Len(analyzed_metadata) = MaxSeeds
    /\ all_citing_metadata = <<>>

\* the run is over, by a return or by an exception
RunOver == aj_pc \in {"returned", "done", "raised"}

C21_State ==
    /\ aj_pc # "raised"
    /\ \A t \in Callers : call[t].status # "raised"
    /\ crossref_cache = EmptyDict /\ openalex_cache = EmptyDict
    /\ unified_cache = EmptyDict /\ citing_cache = EmptyDict
    /\ analyzed_metadata = <<>> /\ all_citing_metadata = <<>>
    /\ futures = <<>>
    /\ ~analysis_complete /\ analysis_results = None
    /\ aj_pc \notin {"seeds", "citations", "report", "done"}
    /\ RunOver => \A t \in Callers : Idle(t)

\* C21: when every request ends with a status other than 200 or with an
\* exception, analyze_journal comes to its end by a return, no exception
\* leaves it, no cache gets an entry, no task is submitted and no seed
\* record or citing entry is produced.
C21_Outage == []C21_State /\ <>[](aj_pc = "returned")

\* the listing of a journal that has works has failed RETRIES times after
\* the lookup of the name had failed RETRIES times, and the run has returned
C21_Witness ==
    /\ aj_pc = "returned"
    /\ parse_period(aj_period) # {}
    /\ journal_name = JournalNotFound
    /\ call[ScriptThread].fn = "bulk"
    /\ call[ScriptThread].ret = <<>>
    /\ script[ScriptThread][1].items # <<>>
    /\ delay_index = Min(2 * RETRIES, Len(DELAYS) - 1)

\* the tier after k failed waits in a row
TierOf(k) == Min(k, Len(DELAYS) - 1)

C22_State ==
    /\ delay_index = TierOf(dl_fails)
    /\ \A t \in Threads :
          dl_pc[t] = "sleeping" =>
             /\ dl_lock = t
             /\ dl_success[t] => dl_fails = 0 /\ dl_delay[t] = DelayAt(0)
             /\ ~dl_success[t] => dl_fails >= 1 /\ dl_delay[t] = DelayAt(TierOf(dl_fails))

C22_Step ==
    \A t \in Threads :
        (WaitStarts(t) /\ ~dl_success'[t]) =>
            /\ dl_fails' = Min(dl_fails + 1, FailsCap)
            /\ dl_fails = 0 => dl_delay'[t] = DelayAt(1)

\* C22: the delay a worker sleeps in wait(success=False) is
\* DELAYS[min(k, len(DELAYS)-1)], k being the failed waits of all workers
\* since the last successful wait of any worker, this one included, in the
\* order the lock was taken; after a successful wait of any worker the next
\* failed wait of any worker sleeps DELAYS[1].
C22_SharedTier == []C22_State /\ [][C22_Step]_vars

\* a worker's first wait sleeps DELAYS[3]: the two waits before it, of
\* another worker, had failed
C22_Witness ==
    \E t, u \in Threads :
        /\ t # u
        /\ dl_pc[t] = "sleeping" /\ ~dl_success[t]
        /\ dl_ret[t] = 0
        /\ dl_delay[t] = DelayAt(3)
        /\ dl_ret[u] = DelayAt(2)

\* thread t returns from the time.sleep of wait_if_needed
SleepEnds(t) == rl_pc[t] = "sleeping" /\ rl_pc'[t] = "idle"

\* C23: when wait_if_needed has slept, the timestamp it appends for the
\* admitted call is the time at which the sleep ended and the call is
\* released, not the time read before the sleep.
C23_RecordedAfterSleep ==
    [][\A t \in Threads :
          SleepEnds(t) =>
             /\ timestamps'[Len(timestamps')] = clock
             /\ timestamps'[Len(timestamps')] # rl_now[t]]_vars

\* thread t is inside a single-record fetch whose last request was answered
\* with a record
Answering(t) == ~Idle(t) /\ Top(t).fn \in Providers /\ Top(t).outcome = "ok"

C24_State ==
    /\ \A p \in Providers : \A d \in DOMAIN CacheOf(p) :
          CacheOf(p)[d] \in ProviderRecords(p, d)
    /\ \A t \in Threads :
          /\ Answering(t) =>
                /\ Top(t).arg \in DOMAIN CacheOf(Top(t).fn)
                /\ Top(t).data \in ProviderRecords(Top(t).fn, Top(t).arg)
                /\ Top(t).pc = "ret" => Top(t).result = Top(t).data
          /\ (~Idle(t) /\ Top(t).fn \in Providers /\ Top(t).pc = "ret"
                 /\ Top(t).outcome # "ok") => Top(t).attempts = RETRIES
          /\ (call[t].fn \in Providers /\ call[t].status = "returned"
                 /\ call[t].ret # None) =>
                /\ call[t].ret \in ProviderRecords(call[t].fn, call[t].arg)
                /\ call[t].arg \in DOMAIN CacheOf(call[t].fn)

\* a request answered with a record leaves that record in the cache
C24_Step ==
    \A t \in Threads :
        (Running(t, Providers, "http") /\ stack'[t] # stack[t]
            /\ stack'[t][1].outcome = "ok") =>
           CacheOf(Top(t).fn)'[Top(t).arg] = stack'[t][1].data

C25_OnlyWorkRecords ==
    \A k \in DOMAIN crossref_cache :
        /\ StartsWith10(k)
        /\ crossref_cache[k] \in CrossrefRecords(k)

EntriesFor(citing_list, d) == {j \in 1..Len(citing_list) : citing_list[j].doi = d}

\* C27: in one citing traversal an item of a page is appended to the
\* citing list once at most, also when the body of a status 200 has no meta
\* field and the page is requested again: a result set that lists a work
\* once gives a list with one entry for it at most.
C27_AppendedOnce ==
    /\ \A f \in CitingFrames :
          \A d \in DOIs : Cardinality(EntriesFor(f.acc, d)) <= 1
    /\ \A seed \in DOMAIN citing_cache :
          \A d \in DOIs : Cardinality(EntriesFor(citing_cache[seed], d)) <= 1

\* thread t starts a call of get_citing_dois_and_metadata
CitingStarts(t) == Idle(t) /\ call'[t] # call[t] /\ call'[t].fn = "citing"

C28_Step ==
    /\ Kept(citing_cache, citing_cache')
    /\ \A t \in Threads :
          /\ (CitingStarts(t) /\ call'[t].arg \in DOMAIN citing_cache) =>
                /\ call'[t].status = "returned"
                /\ call'[t].ret = citing_cache[call'[t].arg]
                /\ ~call'[t].admitted /\ ~call'[t].requested /\ ~call'[t].waited
                /\ stack'[t] = <<>>
                /\ UNCHANGED <<cacheVars, timestamps, delay_index>>
          /\ (Running(t, {"citing"}, "page_wait") /\ stack'[t] # stack[t]
                 /\ Top(t).outcome # "ok" /\ Top(t).attempts = RETRIES) =>
                /\ Top(t).arg \in DOMAIN citing_cache'
                /\ citing_cache'[Top(t).arg] = Top(t).acc
          /\ (Running(t, {"citing"}, "after_oa") /\ stack'[t] # stack[t]
                 /\ Top(t).rv = None) =>
                /\ Top(t).arg \in DOMAIN citing_cache'
                /\ citing_cache'[Top(t).arg] = <<>>

\* C28: the list of a traversal that ended because a page failed RETRIES
\* times, and the empty list of a seed whose open-metadata record could not
\* be fetched, are stored in citing_cache like a complete list; the stored
\* list is never replaced, and every later call for the seed returns it at
\* once, with no call of wait_if_needed, requests.get or delayer.wait,
\* whatever the provider would answer then.
C28_PartialIsFinal == [][C28_Step]_vars

\* a second call for a seed has returned the list of the first, which has
\* an entry and was cut short: the last RETRIES waits were failures
C28_Witness ==
    \E t \in Threads :
        /\ call[t].fn = "citing" /\ call[t].repeat
        /\ call[t].status = "returned"
        /\ call[t].ret = call[t].first_ret
        /\ call[t].ret # <<>>
        /\ call[t].ret = citing_cache[call[t].arg]
        /\ dl_fails >= RETRIES

\* the threads inside the time.sleep of delayer.wait
Sleepers == {t \in Threads : dl_pc[t] = "sleeping"}

C29_State ==
    /\ Cardinality(Sleepers) <= 1
    /\ \A t \in Sleepers : dl_lock = t
    /\ dl_lock # NoThread => dl_lock \in Sleepers

C29_Step ==
    \A t \in Sleepers :
        /\ delay_index' = delay_index
        /\ \A u \in Threads \ {t} : dl_pc'[u] = dl_pc[u] /\ dl_delay'[u] = dl_delay[u]
        /\ dl_pc'[t] = "idle" => dl_lock' = NoThread /\ dl_ret'[t] = dl_delay[t]

\* C29: wait holds the delayer's lock from the update of the tier to the end
\* of its sleep: one thread at most is in a backoff sleep, it holds the
\* lock, and until its sleep has ended no other thread changes the tier or
\* starts a sleep.
C29_SleepsSerialized == []C29_State /\ [][C29_Step]_vars

\* a worker sleeps the delay of a failed wait while the other, which has
\* waited before, is outside wait
C29_Witness ==
    \E t, u \in Threads :
        /\ t # u
        /\ Sleepers = {t} /\ dl_lock = t
        /\ ~dl_success[t] /\ dl_delay[t] = DelayAt(2)
        /\ dl_ret[t] # 0 /\ dl_ret[u] # 0

\* C30: no worker holds the lock of the rate limiter and the lock of the
\* delayer at once; when every request returns and every result set is
\* finite, the run is never stuck (until it is over the script or a worker
\* can take a step, and every loop is bounded), and a run that has got its
\* articles ends at Done, with every task finished: no exception takes it
\* out before.
C30_ReachesDone ==
    /\ \A t \in Threads : ~(rl_lock = t /\ dl_lock = t)
    /\ RunOver \/ ENABLED NextAnalyze
    /\ (RunOver /\ aj_items # <<>>) => aj_pc = "done" /\ AllFinished

\* the record of provider p in a pair of the unified cache
RecordOf(pair, p) == IF p = "crossref" THEN pair.crossref ELSE pair.openalex

\* the pairs in which a provider's record is missing
Incomplete(pair) == pair.crossref = None \/ pair.openalex = None

C31_State ==
    \A t \in Threads :
        LET c == call[t]
        IN  /\ (c.fn = "unified" /\ c.arg \in DOIs) =>
                  /\ c.status = "returned" =>
                        c.arg \in DOMAIN unified_cache /\ unified_cache[c.arg] = c.ret
                  /\ c.repeat =>
                        /\ c.status = "returned"
                        /\ c.ret = c.first_ret
                        /\ ~c.admitted /\ ~c.requested /\ ~c.waited
            /\ (/\ c.fn \in Providers
                /\ c.arg \in DOMAIN unified_cache
                /\ RecordOf(unified_cache[c.arg], c.fn) = None
                /\ c.arg \notin DOMAIN CacheOf(c.fn)) =>
                  /\ c.status = "running" =>
                        \E f \in FramesOf(t) : f.fn = c.fn /\ f.arg = c.arg
                  /\ c.status = "returned" => c.requested /\ c.ret = None

C31_Step ==
    /\ Kept(unified_cache, unified_cache')
    /\ \A t \in Threads :
          (/\ Idle(t) /\ call'[t] # call[t]
           /\ call'[t].fn = "unified"
           /\ call'[t].arg \in DOMAIN unified_cache) =>
              /\ call'[t].status = "returned"
              /\ call'[t].ret = unified_cache[call'[t].arg]
              /\ ~call'[t].requested
              /\ UNCHANGED <<timestamps, delay_index, cacheVars>>

\* C31: get_unified_metadata stores its pair in the unified cache also when
\* one or both of its records are None, and the stored pair stays: every
\* later get_unified_metadata call for that DOI returns the stored pair at
\* once, with no request and no change of the caches, while a direct fetch
\* of the record that is None in the pair, when the provider's cache has not
\* got the DOI, enters the retry loop and makes requests again.
C31_NonePairCached == []C31_State /\ [][C31_Step]_vars

\* a unified call answered with the stored pair whose crossref record is
\* None, after a direct fetch has got that record into the crossref cache
C31_Witness ==
    \E t \in Threads :
        LET c == call[t]
        IN  /\ c.fn = "unified" /\ c.arg \in DOIs
            /\ c.status = "returned"
            /\ ~c.requested
            /\ c.ret.crossref = None /\ c.ret.openalex # None
            /\ c.arg \in DOMAIN crossref_cache

\* the run has gone through both with blocks: the futures are those of the
\* citing tasks, one for each DOI of analyzed_metadata, all finished and
\* collected, and every seed and every analyzed DOI has its cache entry
BothPhasesOver ==
    /\ analyzed_dois = AnalyzedDOIs(analyzed_metadata)
    /\ Len(futures) = Len(analyzed_dois)
    /\ AllFinished
    /\ Len(yielded) = Len(futures)
    /\ \A j \in 1..Len(dois) : dois[j] \in DOMAIN unified_cache
    /\ \A j \in 1..Len(analyzed_dois) : analyzed_dois[j] \in DOMAIN citing_cache

\* analysis_results is what the current run stores
ResultsOfRun ==
    /\ analysis_results # None
    /\ analysis_results.issn = aj_issn
    /\ analysis_results.period = aj_period
    /\ analysis_results.journal_name = journal_name
    /\ analysis_results.n_analyzed = Len(aj_items)
    /\ analysis_results.analyzed_n_items = Len(analyzed_metadata)
    /\ analysis_results.citing_n_items = Len(all_citing_metadata)

C32_State ==
    analysis_complete =>
        /\ aj_pc = "done"
        /\ aj_items # <<>> /\ parse_period(aj_period) # {}
        /\ BothPhasesOver
        /\ ResultsOfRun

C32_Step ==
    /\ (analysis_complete /\ analysis_complete') => UNCHANGED ajVars
    /\ (~analysis_complete /\ analysis_complete') => aj_pc = "report"
    /\ (aj_pc \in {"idle", "returned", "done", "raised"} /\ aj_pc' \notin {aj_pc, "done"}) =>
          ~analysis_complete'

\* C32: state.analysis_complete is True only when the run of analyze_journal
\* that started last has ended at Done: it has articles and valid years, has
\* gone through both resolution phases and has stored its own
\* analysis_results.  The flag becomes True in the step that stores the
\* results only, nothing of the run changes while it is True, and the start
\* of a run sets it to False, where it stays through every early exit.
C32_CompleteMeansStored == []C32_State /\ [][C32_Step]_vars

\* a run that found no articles has returned after a run that had stored
\* its results: the results of the earlier run are still there and the flag
\* is False
C32_Witness ==
    /\ aj_pc = "returned"
    /\ parse_period(aj_period) # {}
    /\ aj_items = <<>>
    /\ analysis_results # None
    /\ ~analysis_complete

=============================================================================
